---------------------------- MODULE Spec2Model ----------------------------
(***************************************************************************)
(* Wake-on-LAN device registry (wol/device), MAC codec (wol/packet) and    *)
(* the persisted registry file.                                            *)
(*                                                                         *)
(* Go strings are sequences of bytes (0..255).  time.Time is a record of   *)
(* the wall-clock instant and whether a monotonic reading is attached.     *)
(* The registry file is modelled by its JSON document: the object members  *)
(* in the order encoding/json writes them, every string as the bytes       *)
(* written between the quotes.                                             *)
(***************************************************************************)
EXTENDS Integers, Sequences, FiniteSets, TLC

VARIABLES store, Devices, file, clock, last,
          net, main, capture, captureResult,
          held, requests

vars == <<store, Devices, file, clock, last, net, main, capture, captureResult,
          held, requests>>

\* the registry of one process and its file
registryVars == <<store, Devices, file, clock>>

\* the network, and a SendWakeOnLANWithVerification call in progress: the
\* caller, its capture goroutine and the channel between them
networkVars == <<net, main, capture, captureResult>>

\* the users of the registry: the *Device a caller of GetDevice or
\* ListDevices keeps, and the HTTP requests the server is handling, each in
\* its own goroutine
clientVars == <<held, requests>>

(***************************************************************************)
(* Bounds                                                                  *)
(***************************************************************************)
\* number of time.Now() readings taken in one run
MaxClock == 2

(***************************************************************************)
(* Byte strings                                                            *)
(***************************************************************************)
RECURSIVE Concat(_)
Concat(ss) == IF ss = << >> THEN << >> ELSE Head(ss) \o Concat(Tail(ss))

\* Go's string comparison a < b: bytewise lexicographic
RECURSIVE StringLess(_, _)
StringLess(a, b) ==
    IF b = << >> THEN FALSE
    ELSE IF a = << >> THEN TRUE
    ELSE IF Head(a) # Head(b) THEN Head(a) < Head(b)
    ELSE StringLess(Tail(a), Tail(b))

\* utf8 continuation byte
Cont(b) == b \in 128..191

\* utf8.DecodeRuneInString at byte position i: code point and width; a byte
\* that starts no valid encoding is RuneError (U+FFFD) of width 1
DecodeRune(s, i) ==
    LET n  == Len(s)
        b0 == s[i]
        b1 == IF i + 1 <= n THEN s[i + 1] ELSE -1
        b2 == IF i + 2 <= n THEN s[i + 2] ELSE -1
        b3 == IF i + 3 <= n THEN s[i + 3] ELSE -1
        lo3 == IF b0 = 224 THEN 160 ELSE 128
        hi3 == IF b0 = 237 THEN 159 ELSE 191
        lo4 == IF b0 = 240 THEN 144 ELSE 128
        hi4 == IF b0 = 244 THEN 143 ELSE 191
    IN  IF b0 < 128 THEN [cp |-> b0, size |-> 1]
        ELSE IF b0 \in 194..223 /\ Cont(b1)
            THEN [cp |-> (b0 - 192) * 64 + (b1 - 128), size |-> 2]
        ELSE IF b0 \in 224..239 /\ b1 \in lo3..hi3 /\ Cont(b2)
            THEN [cp |-> (b0 - 224) * 4096 + (b1 - 128) * 64 + (b2 - 128),
                  size |-> 3]
        ELSE IF b0 \in 240..244 /\ b1 \in lo4..hi4 /\ Cont(b2) /\ Cont(b3)
            THEN [cp |-> (b0 - 240) * 262144 + (b1 - 128) * 4096
                          + (b2 - 128) * 64 + (b3 - 128),
                  size |-> 4]
        ELSE [cp |-> 65533, size |-> 1]

\* utf8.AppendRune
EncodeRune(cp) ==
    IF cp < 128 THEN <<cp>>
    ELSE IF cp < 2048 THEN <<192 + (cp \div 64), 128 + (cp % 64)>>
    ELSE IF cp < 65536
        THEN <<224 + (cp \div 4096), 128 + ((cp \div 64) % 64), 128 + (cp % 64)>>
    ELSE <<240 + (cp \div 262144), 128 + ((cp \div 4096) % 64),
           128 + ((cp \div 64) % 64), 128 + (cp % 64)>>

\* the runes of s from byte i on, each with the bytes it was decoded from
RECURSIVE RunesFrom(_, _)
RunesFrom(s, i) ==
    IF i > Len(s) THEN << >>
    ELSE LET r == DecodeRune(s, i)
         IN  <<[cp |-> r.cp, raw |-> SubSeq(s, i, i + r.size - 1)]>>
             \o RunesFrom(s, i + r.size)

Runes(s) == RunesFrom(s, 1)

\* unicode.IsSpace
IsSpace(cp) ==
    \/ cp \in {9, 10, 11, 12, 13, 32, 133, 160, 5760}
    \/ cp \in 8192..8202
    \/ cp \in {8232, 8233, 8239, 8287, 12288}

RECURSIVE TrimLeftRunes(_)
TrimLeftRunes(rs) ==
    IF rs # << >> /\ IsSpace(Head(rs).cp) THEN TrimLeftRunes(Tail(rs)) ELSE rs

RECURSIVE TrimRightRunes(_)
TrimRightRunes(rs) ==
    IF rs # << >> /\ IsSpace(rs[Len(rs)].cp)
    THEN TrimRightRunes(SubSeq(rs, 1, Len(rs) - 1))
    ELSE rs

TrimSpace_Identity(s) == s

\* strings.TrimSpace
TrimSpace(s) ==
    LET rs == TrimRightRunes(TrimLeftRunes(Runes(s)))
    IN  Concat([i \in 1..Len(rs) |-> rs[i].raw])

\* unicode.ToLower, on the code points a name is compared through: ASCII
\* letters, and the two non-ASCII runes whose lower case is an ASCII letter
\* (U+212A KELVIN SIGN -> k, U+0130 -> i)
ToLowerRune(cp) ==
    IF cp \in 65..90 THEN cp + 32
    ELSE IF cp = 8490 THEN 107
    ELSE IF cp = 304 THEN 105
    ELSE cp

ToLower_Identity(s) == s

\* strings.ToLower
ToLower(s) ==
    LET rs == Runes(s)
    IN  Concat([i \in 1..Len(rs) |-> EncodeRune(ToLowerRune(rs[i].cp))])

\* strings.ReplaceAll(s, <<b>>, "")
RECURSIVE RemoveByte(_, _)
RemoveByte(s, b) ==
    IF s = << >> THEN << >>
    ELSE IF Head(s) = b THEN RemoveByte(Tail(s), b)
    ELSE <<Head(s)>> \o RemoveByte(Tail(s), b)

\* strings.ToUpper, bytewise: a-z become A-Z.  No non-ASCII rune has an
\* upper case in 0-9A-F, so other bytes are carried over; they fail the
\* hexadecimal test of ValidateMAC either way.
ToUpper(s) == [i \in 1..Len(s) |-> IF s[i] \in 97..122 THEN s[i] - 32 ELSE s[i]]

(***************************************************************************)
(* wol/packet: MAC codec                                                   *)
(***************************************************************************)
\* ':' and '-'
Colon == 58
Dash == 45

CleanMAC(mac) == ToUpper(RemoveByte(RemoveByte(mac, Colon), Dash))

\* [0-9A-F]
IsHexUpper(b) == b \in 48..57 \/ b \in 65..70

\* "" when the address is valid, else the reason
ValidateMAC(mac) ==
    LET cleanMAC == CleanMAC(mac)
    IN  IF Len(cleanMAC) # 12 THEN "length"
        ELSE IF ~ \A i \in 1..Len(cleanMAC) : IsHexUpper(cleanMAC[i])
            THEN "characters"
        ELSE ""

HexVal(b) == IF b \in 48..57 THEN b - 48 ELSE b - 55

\* hex.DecodeString on an even-length string of upper-case hex digits
HexDecode(h) == [i \in 1..(Len(h) \div 2) |-> 16 * HexVal(h[2 * i - 1]) + HexVal(h[2 * i])]

FormatMAC_NoColons(cleanMAC) == cleanMAC

\* fmt.Sprintf("%s:%s:%s:%s:%s:%s", cleanMAC[0:2], ..., cleanMAC[10:12])
FormatMAC(cleanMAC) ==
    SubSeq(cleanMAC, 1, 2) \o <<Colon>> \o SubSeq(cleanMAC, 3, 4) \o <<Colon>>
    \o SubSeq(cleanMAC, 5, 6) \o <<Colon>> \o SubSeq(cleanMAC, 7, 8) \o <<Colon>>
    \o SubSeq(cleanMAC, 9, 10) \o <<Colon>> \o SubSeq(cleanMAC, 11, 12)

(***************************************************************************)
(* encoding/json, as Save and Load use it                                  *)
(***************************************************************************)
\* '"', '\', 'u'
Quote == 34
Backslash == 92
LetterU == 117

\* the digits of "0123456789abcdef"
HexDigit(v) == IF v < 10 THEN 48 + v ELSE 87 + v

\* htmlSafeSet: the ASCII bytes written as they are
HTMLSafe(b) == b \in 32..127 /\ b \notin {Quote, Backslash, 60, 62, 38}

\* encodeState.string (escapeHTML on): the bytes written between the quotes.
\* A byte that is not valid UTF-8 is written as the six-byte escape for U+FFFD.
RECURSIVE EncodeStringFrom(_, _)
EncodeStringFrom(s, i) ==
    IF i > Len(s) THEN << >>
    ELSE LET b == s[i]
             r == DecodeRune(s, i)
         IN  IF b < 128
             THEN (IF HTMLSafe(b) THEN <<b>>
                   ELSE IF b \in {Quote, Backslash} THEN <<Backslash, b>>
                   ELSE IF b = 8 THEN <<Backslash, 98>>
                   ELSE IF b = 12 THEN <<Backslash, 102>>
                   ELSE IF b = 10 THEN <<Backslash, 110>>
                   ELSE IF b = 13 THEN <<Backslash, 114>>
                   ELSE IF b = 9 THEN <<Backslash, 116>>
                   ELSE <<Backslash, LetterU, 48, 48,
                          HexDigit(b \div 16), HexDigit(b % 16)>>)
                  \o EncodeStringFrom(s, i + 1)
             ELSE (IF r.cp = 65533 /\ r.size = 1
                   THEN <<Backslash, LetterU, 102, 102, 102, 100>>
                   ELSE IF r.cp \in {8232, 8233}
                   THEN <<Backslash, LetterU, 50, 48, 50, HexDigit(r.cp % 16)>>
                   ELSE SubSeq(s, i, i + r.size - 1))
                  \o EncodeStringFrom(s, i + r.size)

EncodeString(s) == EncodeStringFrom(s, 1)

\* getu4: the value of one hexadecimal digit of a \uXXXX escape
HexDigitVal(b) ==
    IF b \in 48..57 THEN b - 48
    ELSE IF b \in 97..102 THEN b - 87
    ELSE b - 55

\* unquote: the Go string a JSON string body stands for.  The encoder never
\* writes a surrogate escape; one read from a file decodes to U+FFFD.
RECURSIVE DecodeStringFrom(_, _)
DecodeStringFrom(q, i) ==
    IF i > Len(q) THEN << >>
    ELSE LET b == q[i]
             c == q[i + 1]
             u == 4096 * HexDigitVal(q[i + 2]) + 256 * HexDigitVal(q[i + 3])
                  + 16 * HexDigitVal(q[i + 4]) + HexDigitVal(q[i + 5])
             r == DecodeRune(q, i)
         IN  IF b = Backslash
             THEN IF c = LetterU
                  THEN EncodeRune(IF u \in 55296..57343 THEN 65533 ELSE u)
                       \o DecodeStringFrom(q, i + 6)
                  ELSE <<(IF c = 98 THEN 8
                          ELSE IF c = 102 THEN 12
                          ELSE IF c = 110 THEN 10
                          ELSE IF c = 114 THEN 13
                          ELSE IF c = 116 THEN 9
                          ELSE c)>>
                       \o DecodeStringFrom(q, i + 2)
             ELSE (IF r.cp = 65533 /\ r.size = 1 THEN EncodeRune(65533)
                   ELSE SubSeq(q, i, i + r.size - 1))
                  \o DecodeStringFrom(q, i + r.size)

DecodeString(q) == DecodeStringFrom(q, 1)

(***************************************************************************)
(* time.Time                                                               *)
(***************************************************************************)
\* the zero value of time.Time
ZeroTime == [wall |-> 0, mono |-> FALSE]

\* time.Now() when the clock reads c: wall instant c, monotonic reading set
Now(c) == [wall |-> c, mono |-> TRUE]

IsZero(t) == t.wall = 0

\* Time.Equal: the same instant
TimeEqual(t, u) == t.wall = u.wall

\* Time.MarshalJSON: the RFC 3339 text of the wall instant; the monotonic
\* reading has no representation
TimeMarshalJSON(t) == [rfc3339 |-> t.wall]

\* Time.UnmarshalJSON
TimeUnmarshalJSON(v) == [wall |-> v.rfc3339, mono |-> FALSE]

(***************************************************************************)
(* wol/device: Device, DeviceStore                                         *)
(***************************************************************************)
\* the zero Device
ZeroDevice ==
    [Name |-> << >>, MACAddress |-> << >>, Description |-> << >>,
     IPAddress |-> << >>, Port |-> 0, LastWoken |-> ZeroTime,
     AddedAt |-> ZeroTime]

\* make(map[string]*Device)
EmptyMap == [k \in {} |-> ZeroDevice]

MapSet(m, k, v) == [x \in DOMAIN m \cup {k} |-> IF x = k THEN v ELSE m[x]]

MapDelete(m, k) == [x \in DOMAIN m \ {k} |-> m[x]]

\* the members a Device is written with, in field order; a member tagged
\* omitempty is left out when its value is "" or 0 (omitempty has no effect
\* on a struct, so last_woken is always written)
MarshalDevice(d) ==
    <<<<"name", EncodeString(d.Name)>>,
      <<"mac_address", EncodeString(d.MACAddress)>>>>
    \o (IF Len(d.Description) = 0 THEN << >>
        ELSE <<<<"description", EncodeString(d.Description)>>>>)
    \o (IF Len(d.IPAddress) = 0 THEN << >>
        ELSE <<<<"ip_address", EncodeString(d.IPAddress)>>>>)
    \o (IF d.Port = 0 THEN << >> ELSE <<<<"port", d.Port>>>>)
    \o <<<<"last_woken", TimeMarshalJSON(d.LastWoken)>>,
         <<"added_at", TimeMarshalJSON(d.AddedAt)>>>>

HasMember(obj, f) == \E i \in 1..Len(obj) : obj[i][1] = f

\* the value of the last member named f (a later duplicate wins)
Member(obj, f) ==
    LET i == CHOOSE j \in 1..Len(obj) :
                 /\ obj[j][1] = f
                 /\ \A k \in (j + 1)..Len(obj) : obj[k][1] # f
    IN  obj[i][2]

\* json decoding of one device object into a new Device
UnmarshalDevice(obj) ==
    [Name        |-> IF HasMember(obj, "name")
                     THEN DecodeString(Member(obj, "name")) ELSE << >>,
     MACAddress  |-> IF HasMember(obj, "mac_address")
                     THEN DecodeString(Member(obj, "mac_address")) ELSE << >>,
     Description |-> IF HasMember(obj, "description")
                     THEN DecodeString(Member(obj, "description")) ELSE << >>,
     IPAddress   |-> IF HasMember(obj, "ip_address")
                     THEN DecodeString(Member(obj, "ip_address")) ELSE << >>,
     Port        |-> IF HasMember(obj, "port") THEN Member(obj, "port") ELSE 0,
     LastWoken   |-> IF HasMember(obj, "last_woken")
                     THEN TimeUnmarshalJSON(Member(obj, "last_woken"))
                     ELSE ZeroTime,
     AddedAt     |-> IF HasMember(obj, "added_at")
                     THEN TimeUnmarshalJSON(Member(obj, "added_at"))
                     ELSE ZeroTime]

\* the keys of a map in the order encoding/json writes them (sorted)
RECURSIVE SortedKeys(_)
SortedKeys(S) ==
    IF S = {} THEN << >>
    ELSE LET m == CHOOSE x \in S : \A y \in S \ {x} : StringLess(x, y)
         IN  <<m>> \o SortedKeys(S \ {m})

\* json.MarshalIndent(ds, "", "\t"): the document {"devices": {...}}
MarshalIndent(ds) ==
    LET keys == SortedKeys(DOMAIN ds)
    IN  [devices |-> [i \in 1..Len(keys) |->
                        [key   |-> EncodeString(keys[i]),
                         value |-> MarshalDevice(ds[keys[i]])]]]

\* json.Unmarshal(data, ds) on a store whose map is empty: members are
\* stored in document order, a repeated key replacing the earlier entry
RECURSIVE UnmarshalMembers(_, _)
UnmarshalMembers(members, m) ==
    IF members = << >> THEN m
    ELSE UnmarshalMembers(Tail(members),
             MapSet(m, DecodeString(Head(members).key),
                    UnmarshalDevice(Head(members).value)))

Unmarshal(doc) == UnmarshalMembers(doc.devices, EmptyMap)

(***************************************************************************)
(* The file at configPath                                                  *)
(***************************************************************************)
EmptyDoc == [devices |-> << >>]

\* no file at the path
FileAbsent == [kind |-> "absent", doc |-> EmptyDoc]

\* the path exists but cannot be read (it is a directory)
FileUnreadable == [kind |-> "directory", doc |-> EmptyDoc]

\* a file whose content is not a JSON document: hand-made garbage, or what
\* an interrupted os.WriteFile leaves after truncating
FileGarbage == [kind |-> "garbage", doc |-> EmptyDoc]

FileJSON(doc) == [kind |-> "json", doc |-> doc]

\* os.ReadFile followed by json.Unmarshal into a store whose map is empty;
\* err is "" on success
Load(f) ==
    IF f.kind = "absent" THEN [err |-> "ENOENT", devices |-> EmptyMap]
    ELSE IF f.kind = "directory" THEN [err |-> "EISDIR", devices |-> EmptyMap]
    ELSE IF f.kind = "garbage" THEN [err |-> "SyntaxError", devices |-> EmptyMap]
    ELSE [err |-> "", devices |-> Unmarshal(f.doc)]

IsNotExist_AnyError(err) == err # ""

\* os.IsNotExist
IsNotExist(err) == err = "ENOENT"

(***************************************************************************)
(* Errors returned by the registry                                         *)
(***************************************************************************)
\* device: the device an error message names, "" when it names none
Error(kind, device) == [kind |-> kind, device |-> device]

NoError == Error("none", << >>)

ValidationErrors ==
    {"EmptyName", "ReservedName", "InvalidMAC", "DuplicateName", "DuplicateMAC"}

\* what the environment lets a Save do: succeed; fail in os.MkdirAll, the
\* file untouched (os.WriteFile failing to open it has the same effect); fail
\* in os.WriteFile after it truncated the file
SaveOutcomes == {"ok", "mkdir", "write"}

Save_SwallowWriteError(ds, f, outcome) ==
    IF outcome = "ok"
    THEN [file |-> FileJSON(MarshalIndent(ds)), err |-> NoError]
    ELSE IF outcome = "write"
    THEN [file |-> FileGarbage, err |-> NoError]
    ELSE [file |-> f, err |-> Error("PersistenceError", << >>)]

\* DeviceStore.Save: the file it leaves and the error it returns
Save(ds, f, outcome) ==
    IF outcome = "ok"
    THEN [file |-> FileJSON(MarshalIndent(ds)), err |-> NoError]
    ELSE IF outcome = "write"
    THEN [file |-> FileGarbage, err |-> Error("PersistenceError", << >>)]
    ELSE [file |-> f, err |-> Error("PersistenceError", << >>)]

(***************************************************************************)
(* Inputs                                                                  *)
(***************************************************************************)
\* "pc", " pc ", "PC", "nas", "  ", "Wake"
Name_pc == <<112, 99>>
Name_pcPadded == <<32, 112, 99, 32>>
Name_PC == <<80, 67>>
Name_nas == <<110, 97, 115>>
Name_blank == <<32, 32>>
Name_Wake == <<87, 97, 107, 101>>
\* "a\xff": a name that is not valid UTF-8, as a command-line argument can
\* be, and "a" followed by U+FFFD, the name it is written to the file as
Name_aFF == <<97, 255>>
Name_aFFFD == <<97, 239, 191, 189>>

\* "AA:BB:CC:DD:EE:FF", "aa-bb:cc-dd:ee-ff"
MAC_aaColon == <<65, 65, 58, 66, 66, 58, 67, 67, 58, 68, 68, 58, 69, 69, 58, 70, 70>>
MAC_aaMixed == <<97, 97, 45, 98, 98, 58, 99, 99, 45, 100, 100, 58, 101, 101, 45, 102, 102>>
\* "11:22:33:44:55:66", "112233445566"
MAC_11Colon == <<49, 49, 58, 50, 50, 58, 51, 51, 58, 52, 52, 58, 53, 53, 58, 54, 54>>
MAC_11Bare == <<49, 49, 50, 50, 51, 51, 52, 52, 53, 53, 54, 54>>
\* "00-1b-63-84-45-e6"
MAC_00Dash == <<48, 48, 45, 49, 98, 45, 54, 51, 45, 56, 52, 45, 52, 53, 45, 101, 54>>
\* "AA:BB:CC:DD:EE" (too short), "GG:BB:CC:DD:EE:FF" (not hexadecimal)
MAC_short == <<65, 65, 58, 66, 66, 58, 67, 67, 58, 68, 68, 58, 69, 69>>
MAC_nonHex == <<71, 71, 58, 66, 66, 58, 67, 67, 58, 68, 68, 58, 69, 69, 58, 70, 70>>

\* " My desktop ", "a<\"b", "192.168.1.100", "10.0.0.50"
Text_desktop == <<32, 77, 121, 32, 100, 101, 115, 107, 116, 111, 112, 32>>
Text_quoted == <<97, 60, 34, 98>>
Text_ip1 == <<49, 57, 50, 46, 49, 54, 56, 46, 49, 46, 49, 48, 48>>
Text_ip2 == <<49, 48, 46, 48, 46, 48, 46, 53, 48>>

Request(name, mac, description, ipAddress, port) ==
    [name |-> name, mac |-> mac, description |-> description,
     ipAddress |-> ipAddress, port |-> port]

\* the AddDevice calls a run draws from
AddRequests ==
    { Request(Name_pc, MAC_aaColon, Text_desktop, Text_ip1, 9),
      Request(Name_pcPadded, MAC_11Colon, << >>, << >>, 0),
      Request(Name_nas, MAC_aaMixed, << >>, Text_ip2, 7),
      Request(Name_nas, MAC_11Bare, Text_quoted, << >>, -1),
      Request(Name_pc, MAC_nonHex, << >>, << >>, 9),
      Request(Name_nas, MAC_short, << >>, << >>, 9),
      Request(Name_blank, MAC_aaColon, << >>, << >>, 9),
      Request(Name_Wake, MAC_11Colon, << >>, << >>, 9),
      Request(Name_aFF, MAC_00Dash, << >>, << >>, 0) }

\* the names RemoveDevice, GetDevice, UpdateLastWoken and DeviceExists are
\* called with
QueryNames == {Name_pc, Name_PC, Name_nas, Name_aFF}

(***************************************************************************)
(* DeviceStore operations                                                  *)
(***************************************************************************)
\* "add-device", "list-devices", "remove-device", "show-device", "wake",
\* "help"
reservedNames ==
    { <<97, 100, 100, 45, 100, 101, 118, 105, 99, 101>>,
      <<108, 105, 115, 116, 45, 100, 101, 118, 105, 99, 101, 115>>,
      <<114, 101, 109, 111, 118, 101, 45, 100, 101, 118, 105, 99, 101>>,
      <<115, 104, 111, 119, 45, 100, 101, 118, 105, 99, 101>>,
      <<119, 97, 107, 101>>,
      <<104, 101, 108, 112>> }

\* the devices whose stored MAC cleans to cleanMAC
MACHolders(ds, cleanMAC) ==
    {n \in DOMAIN ds : CleanMAC(ds[n].MACAddress) = cleanMAC}

AddDeviceErrors_RawMACCompare(ds, name, macAddress) ==
    IF name = << >> THEN {Error("EmptyName", << >>)}
    ELSE IF ToLower(name) \in reservedNames THEN {Error("ReservedName", << >>)}
    ELSE IF ValidateMAC(macAddress) # "" THEN {Error("InvalidMAC", << >>)}
    ELSE IF name \in DOMAIN ds THEN {Error("DuplicateName", name)}
    ELSE IF \E n \in DOMAIN ds : ds[n].MACAddress = macAddress
        THEN {Error("DuplicateMAC", n) : n \in {m \in DOMAIN ds : ds[m].MACAddress = macAddress}}
    ELSE {NoError}

AddDeviceErrors_NameBeforeMAC(ds, name, macAddress) ==
    IF name = << >> THEN {Error("EmptyName", << >>)}
    ELSE IF ToLower(name) \in reservedNames THEN {Error("ReservedName", << >>)}
    ELSE IF name \in DOMAIN ds THEN {Error("DuplicateName", name)}
    ELSE IF ValidateMAC(macAddress) # "" THEN {Error("InvalidMAC", << >>)}
    ELSE IF MACHolders(ds, CleanMAC(macAddress)) # {}
        THEN {Error("DuplicateMAC", n) : n \in MACHolders(ds, CleanMAC(macAddress))}
    ELSE {NoError}

\* the checks of AddDevice, in order, on the trimmed name: the errors the
\* call can return before it changes anything, or NoError.  The loop over
\* the map stops at the first holder of the MAC it meets, in map order.
AddDeviceErrors(ds, name, macAddress) ==
    IF name = << >> THEN {Error("EmptyName", << >>)}
    ELSE IF ToLower(name) \in reservedNames THEN {Error("ReservedName", << >>)}
    ELSE IF ValidateMAC(macAddress) # "" THEN {Error("InvalidMAC", << >>)}
    ELSE IF name \in DOMAIN ds THEN {Error("DuplicateName", name)}
    ELSE IF MACHolders(ds, CleanMAC(macAddress)) # {}
        THEN {Error("DuplicateMAC", n) : n \in MACHolders(ds, CleanMAC(macAddress))}
    ELSE {NoError}

DefaultPort_Unchanged(port) == port

\* if port == 0 { port = 9 }
DefaultPort(port) == IF port = 0 THEN 9 ELSE port

\* the Device AddDevice creates
NewDevice(name, req, now) ==
    [Name        |-> name,
     MACAddress  |-> FormatMAC(CleanMAC(req.mac)),
     Description |-> TrimSpace(req.description),
     IPAddress   |-> TrimSpace(req.ipAddress),
     Port        |-> DefaultPort(req.port),
     LastWoken   |-> ZeroTime,
     AddedAt     |-> now]

AddDeviceApply_InsertBeforeMACCheck(ds, f, name, device, err, outcome) ==
    IF err.kind = "DuplicateMAC"
    THEN [Devices |-> MapSet(ds, name, device), file |-> f, err |-> err]
    ELSE IF err.kind # "none"
    THEN [Devices |-> ds, file |-> f, err |-> err]
    ELSE [Devices |-> MapSet(ds, name, device),
          file    |-> Save(MapSet(ds, name, device), f, outcome).file,
          err     |-> Save(MapSet(ds, name, device), f, outcome).err]

AddDeviceApply_Rollback(ds, f, name, device, err, outcome) ==
    IF err.kind # "none"
    THEN [Devices |-> ds, file |-> f, err |-> err]
    ELSE [Devices |-> IF Save(MapSet(ds, name, device), f, outcome).err = NoError
                      THEN MapSet(ds, name, device) ELSE ds,
          file    |-> Save(MapSet(ds, name, device), f, outcome).file,
          err     |-> Save(MapSet(ds, name, device), f, outcome).err]

\* AddDevice after its checks gave err: an error returns at once; otherwise
\* the device is put in the map and Save's error is returned
AddDeviceApply(ds, f, name, device, err, outcome) ==
    IF err.kind # "none"
    THEN [Devices |-> ds, file |-> f, err |-> err]
    ELSE [Devices |-> MapSet(ds, name, device),
          file    |-> Save(MapSet(ds, name, device), f, outcome).file,
          err     |-> Save(MapSet(ds, name, device), f, outcome).err]

\* sort.Slice's less: devices[i].Name < devices[j].Name
Less_Reversed(a, b) == StringLess(b.Name, a.Name)

Less(a, b) == StringLess(a.Name, b.Name)

Swap(data, i, j) ==
    [k \in 1..Len(data) |-> IF k = i THEN data[j] ELSE IF k = j THEN data[i] ELSE data[k]]

\* sort.Slice on fewer than 12 elements is an insertion sort
RECURSIVE InsertBack(_, _)
InsertBack(data, j) ==
    IF j > 1 /\ Less(data[j], data[j - 1])
    THEN InsertBack(Swap(data, j, j - 1), j - 1)
    ELSE data

RECURSIVE InsertionSortFrom(_, _)
InsertionSortFrom(data, i) ==
    IF i > Len(data) THEN data ELSE InsertionSortFrom(InsertBack(data, i), i + 1)

SortSlice(data) == InsertionSortFrom(data, 2)

\* the orders in which a range over the map can visit its keys
MapOrders(m) ==
    {o \in [1..Cardinality(DOMAIN m) -> DOMAIN m] :
        \A i, j \in DOMAIN o : i # j => o[i] # o[j]}

\* DeviceStore.ListDevices when the map is visited in the given order
ListDevicesIn(ds, order) == SortSlice([i \in 1..Len(order) |-> ds[order[i]]])

(***************************************************************************)
(* wol/packet: BuildMagicPacket                                            *)
(***************************************************************************)
\* the length of a magic packet, and of its header of 0xFF bytes
PacketLen == 102
HeaderLen == 6

\* how often the MAC is repeated after the header
Repetitions == 16

\* make([]byte, n)
Zeros(n) == [i \in 1..n |-> 0]

\* for i := 0; i < 6; i++ { packet[i] = 0xFF }
RECURSIVE FillHeader(_, _)
FillHeader(packet, i) ==
    IF i < HeaderLen
    THEN FillHeader([packet EXCEPT ![i + 1] = 255], i + 1)
    ELSE packet

\* copy(dst[lo:hi], src)
Copy(dst, lo, hi, src) ==
    [k \in 1..Len(dst) |->
        IF k > lo /\ k <= hi /\ k - lo <= Len(src) THEN src[k - lo] ELSE dst[k]]

\* for i := 0; i < n; i++ { copy(packet[6+i*6:6+(i+1)*6], macBytes) }
RECURSIVE RepeatMAC(_, _, _, _)
RepeatMAC(packet, macBytes, i, n) ==
    IF i < n
    THEN RepeatMAC(Copy(packet, 6 + i * 6, 6 + (i + 1) * 6, macBytes),
                   macBytes, i + 1, n)
    ELSE packet

BuildMagicPacket_OneRepetitionShort(mac) ==
    IF ValidateMAC(mac) # ""
    THEN [packet |-> << >>, err |-> Error("InvalidMAC", << >>)]
    ELSE [packet |-> RepeatMAC(FillHeader(Zeros(PacketLen), 0),
                               HexDecode(CleanMAC(mac)), 0, Repetitions - 1),
          err    |-> NoError]

\* BuildMagicPacket: the packet (nil is << >>) and the error
BuildMagicPacket(mac) ==
    IF ValidateMAC(mac) # ""
    THEN [packet |-> << >>, err |-> Error("InvalidMAC", << >>)]
    ELSE LET macBytes == HexDecode(CleanMAC(mac))
         IN  IF Len(macBytes) # 6
             THEN [packet |-> << >>, err |-> Error("InvalidMAC", << >>)]
             ELSE [packet |-> RepeatMAC(FillHeader(Zeros(PacketLen), 0),
                                        macBytes, 0, Repetitions),
                   err    |-> NoError]

(***************************************************************************)
(* wol/network: SendWakePacket, SendWakeOnLAN                              *)
(***************************************************************************)
DefaultWoLPort == 9
AlternativeWoLPort == 7

\* the ports net.ResolveUDPAddr accepts in "255.255.255.255:<port>"
MaxPort == 65535

\* what the network lets a send do once the address is resolved: succeed;
\* fail in net.DialUDP; fail in SetWriteDeadline; fail in conn.Write; write
\* fewer bytes than the packet has
SendOutcomes == {"ok", "dial", "deadline", "write", "short"}

\* the part of SendWakePacket that runs with the socket open, from
\* SetWriteDeadline to the return statement: the error, the calls made on
\* the socket, and the datagram written, if any
SendOnSocket(packet, port, env) ==
    IF env = "deadline"
    THEN [err |-> Error("DeadlineError", << >>),
          events |-> <<"deadline failed">>, written |-> << >>]
    ELSE IF env = "write"
    THEN [err |-> Error("WriteError", << >>),
          events |-> <<"deadline", "write failed">>, written |-> << >>]
    ELSE IF env = "short"
    THEN [err |-> Error("ShortWrite", << >>),
          events |-> <<"deadline", "write">>,
          written |-> <<[port |-> port,
                         data |-> SubSeq(packet, 1, Len(packet) - 1)]>>]
    ELSE [err |-> NoError,
          events |-> <<"deadline", "write">>,
          written |-> <<[port |-> port, data |-> packet]>>]

SendWakePacket_CloseOnSuccessOnly(packet, port, env) ==
    IF Len(packet) # PacketLen
    THEN [err |-> Error("InvalidPacketLength", << >>),
          events |-> << >>, written |-> << >>]
    ELSE IF port \notin 0..MaxPort
    THEN [err |-> Error("ResolveError", << >>),
          events |-> <<"resolve failed">>, written |-> << >>]
    ELSE IF env = "dial"
    THEN [err |-> Error("DialError", << >>),
          events |-> <<"resolve", "dial failed">>, written |-> << >>]
    ELSE LET r == SendOnSocket(packet, port, env)
         IN  [err |-> r.err,
              events |-> <<"resolve", "dial">> \o r.events
                         \o (IF r.err = NoError THEN <<"close">> ELSE << >>),
              written |-> r.written]

SendWakePacket_DialBeforeLengthCheck(packet, port, env) ==
    IF port \notin 0..MaxPort
    THEN [err |-> Error("ResolveError", << >>),
          events |-> <<"resolve failed">>, written |-> << >>]
    ELSE IF env = "dial"
    THEN [err |-> Error("DialError", << >>),
          events |-> <<"resolve", "dial failed">>, written |-> << >>]
    ELSE IF Len(packet) # PacketLen
    THEN [err |-> Error("InvalidPacketLength", << >>),
          events |-> <<"resolve", "dial", "close">>, written |-> << >>]
    ELSE LET r == SendOnSocket(packet, port, env)
         IN  [err |-> r.err,
              events |-> <<"resolve", "dial">> \o r.events \o <<"close">>,
              written |-> r.written]

\* SendWakePacket: the error it returns, the network calls it makes in
\* order ("dial" is a DialUDP that opened a socket, "close" the deferred
\* conn.Close()), and the datagram it writes, if any
SendWakePacket(packet, port, env) ==
    IF Len(packet) # PacketLen
    THEN [err |-> Error("InvalidPacketLength", << >>),
          events |-> << >>, written |-> << >>]
    ELSE IF port \notin 0..MaxPort
    THEN [err |-> Error("ResolveError", << >>),
          events |-> <<"resolve failed">>, written |-> << >>]
    ELSE IF env = "dial"
    THEN [err |-> Error("DialError", << >>),
          events |-> <<"resolve", "dial failed">>, written |-> << >>]
    ELSE LET r == SendOnSocket(packet, port, env)
         IN  [err |-> r.err,
              events |-> <<"resolve", "dial">> \o r.events \o <<"close">>,
              written |-> r.written]

\* how often e occurs in events
Count(events, e) == Cardinality({i \in 1..Len(events) : events[i] = e})

\* the network: the number of sender sockets that are open, the datagram
\* most recently written to the broadcast address (none: << >>), the port
\* the capture listener is bound to (none: << >>) and the datagrams waiting
\* in its receive queue
NoNetwork == [open |-> 0, wire |-> << >>, listen |-> << >>, queue |-> << >>]

\* the network after the calls of one SendWakePacket
AfterSend(n, r) ==
    [n EXCEPT !.open = @ + Count(r.events, "dial") - Count(r.events, "close"),
              !.wire = IF r.written # << >> THEN r.written ELSE @]

\* the zero PacketVerificationResult
ZeroResult ==
    [PacketSent |-> FALSE, PacketCaptured |-> FALSE, TargetReachable |-> FALSE,
     BroadcastSent |-> FALSE, Error |-> NoError, CaptureDetails |-> ""]

\* SendWakeOnLAN from the return of its BuildMagicPacket call on: the
\* error it returns, the packet it built (none: << >>) and what its
\* SendWakePacket did.  It returns no verification result: results is the
\* one zero value, as it is for a caller that has none.
SendBuilt(built, port, env) ==
    LET sent == SendWakePacket(built.packet, port, env)
    IN  IF built.err # NoError
        THEN [err |-> Error("BuildFailed", << >>), results |-> {ZeroResult},
              packet |-> << >>, events |-> << >>, written |-> << >>]
        ELSE IF sent.err # NoError
        THEN [err |-> Error("SendFailed", << >>), results |-> {ZeroResult},
              packet |-> built.packet, events |-> sent.events,
              written |-> sent.written]
        ELSE [err |-> NoError, results |-> {ZeroResult},
              packet |-> built.packet, events |-> sent.events,
              written |-> sent.written]

\* SendWakeOnLAN: build the magic packet, then send it
SendWakeOnLAN(mac, port, env) == SendBuilt(BuildMagicPacket(mac), port, env)

\* VerificationConfig, as the command line sets it from -verify-capture
\* and -verify-ping
VerificationConfig(verifyCapture, verifyPing) ==
    [EnableCapture |-> verifyCapture, EnablePing |-> verifyPing]

\* what the select on the capture channel can take: the value the capture
\* goroutine sent, or the timer
CaptureOutcomes == {"true", "false", "timeout"}

\* getNetworkInfo: it fails, it finds no broadcast address, or it finds one
NetworkInfos == {"error", "no broadcast", "broadcast"}

\* SendWakeOnLANWithVerification from the successful send on: the result
\* when the select takes cap, getNetworkInfo gave info and pingHost
\* returns ping
Verified(config, cap, info, ping) ==
    [ZeroResult EXCEPT
        !.PacketSent = TRUE,
        !.BroadcastSent = TRUE,
        !.PacketCaptured = config.EnableCapture /\ cap = "true",
        !.CaptureDetails =
            IF ~ config.EnableCapture THEN ""
            ELSE IF cap = "true" THEN "Magic packet detected on network"
            ELSE IF cap = "false"
                THEN "No magic packet detected during capture window"
            ELSE "Capture timeout",
        !.TargetReachable = config.EnablePing /\ info = "broadcast" /\ ping]

\* SendWakeOnLANWithVerification from the return of its BuildMagicPacket
\* call on, as one step whose send meets env: the error, the results it can
\* return with it, and what its SendWakePacket did
SendBuiltWithVerification(built, port, config, env) ==
    LET sent == SendWakePacket(built.packet, port, env)
    IN  IF built.err # NoError
        THEN [err |-> Error("BuildFailed", << >>),
              results |-> {[ZeroResult EXCEPT
                               !.Error = Error("BuildFailed", << >>)]},
              packet |-> << >>, events |-> << >>, written |-> << >>]
        ELSE IF sent.err # NoError
        THEN [err |-> Error("SendFailed", << >>),
              results |-> {[ZeroResult EXCEPT
                               !.Error = Error("SendFailed", << >>)]},
              packet |-> built.packet, events |-> sent.events,
              written |-> sent.written]
        ELSE [err |-> NoError,
              results |-> {Verified(config, cap, info, ping) :
                               cap \in CaptureOutcomes, info \in NetworkInfos,
                               ping \in BOOLEAN},
              packet |-> built.packet, events |-> sent.events,
              written |-> sent.written]

\* SendWakeOnLANWithVerification: build the magic packet, then send it and
\* verify
SendWakeOnLANWithVerification(mac, port, config, env) ==
    SendBuiltWithVerification(BuildMagicPacket(mac), port, config, env)

\* no SendWakeOnLANWithVerification call is in progress
NoCall == [pc |-> "idle"]
NoGoroutine == [pc |-> "none"]
NilChannel == [made |-> FALSE, cap |-> 0, buf |-> << >>]

NetworkIdle ==
    /\ net = NoNetwork
    /\ main = NoCall
    /\ capture = NoGoroutine
    /\ captureResult = NilChannel

\* no *Device is held by a caller
NoReference == [name |-> << >>, from |-> "none"]

\* the requests the server handles at a time
RequestIds == {1, 2}

\* no request is being handled
NoRequest == [pc |-> "idle"]

ClientsIdle ==
    /\ held = NoReference
    /\ requests = [r \in RequestIds |-> NoRequest]

(***************************************************************************)
(* State machine                                                           *)
(***************************************************************************)
\* the record of the latest call: its arguments and what it returned.
\* stale: whether, when a call that went on to change the map started, the
\* map held a change that an earlier failed Save had left out of the file.
\* save: what the Save inside the call met, "" when the call reached none.
Call(op, name, mac, err, devices, count, exists, stale, save) ==
    [op |-> op, name |-> name, mac |-> mac, err |-> err, devices |-> devices,
     count |-> count, exists |-> exists, stale |-> stale, save |-> save]

Stale(ds, f) ==
    /\ f # FileJSON(MarshalIndent(ds))
    /\ ~ (f = FileAbsent /\ ds = EmptyMap)

Init ==
    /\ store = "none"
    /\ Devices = EmptyMap
    /\ file \in {FileAbsent, FileUnreadable, FileGarbage}
    /\ clock = 0
    /\ last = Call("start", << >>, << >>, NoError, << >>, 0, FALSE, FALSE, "")
    /\ NetworkIdle
    /\ ClientsIdle

\* a process starts and constructs its registry from the file
NewDeviceStore ==
    LET loaded == Load(file)
    IN  IF loaded.err # "" /\ ~ IsNotExist(loaded.err)
        THEN /\ store' = "none"
             /\ Devices' = EmptyMap
             /\ last' = Call("NewDeviceStore", << >>, << >>,
                             Error("LoadError", << >>), << >>, 0, FALSE, FALSE, "")
             /\ UNCHANGED <<file, clock>>
             /\ UNCHANGED networkVars
             /\ UNCHANGED clientVars
        ELSE /\ store' = "ready"
             /\ Devices' = loaded.devices
             /\ last' = Call("NewDeviceStore", << >>, << >>, NoError, << >>,
                             0, FALSE, FALSE, "")
             /\ UNCHANGED <<file, clock>>
             /\ UNCHANGED networkVars
             /\ UNCHANGED clientVars

AddDevice(req) ==
    /\ store = "ready"
    /\ LET name == TrimSpace(req.name)
       IN  \E err \in AddDeviceErrors(Devices, name, req.mac) :
             IF err # NoError
             THEN LET r == AddDeviceApply(Devices, file, name,
                                          NewDevice(name, req, Now(clock)),
                                          err, "ok")
                  IN  /\ Devices' = r.Devices
                      /\ file' = r.file
                      /\ last' = Call("AddDevice", req.name, req.mac, r.err,
                                      << >>, 0, FALSE, FALSE, "")
                      /\ UNCHANGED clock
             ELSE /\ clock < MaxClock
                  /\ clock' = clock + 1
                  /\ \E outcome \in SaveOutcomes :
                       LET r == AddDeviceApply(Devices, file, name,
                                       NewDevice(name, req, Now(clock + 1)),
                                       err, outcome)
                       IN  /\ Devices' = r.Devices
                           /\ file' = r.file
                           /\ last' = Call("AddDevice", req.name, req.mac,
                                           r.err, << >>, 0, FALSE,
                                           Stale(Devices, file), outcome)
    /\ UNCHANGED store
    /\ UNCHANGED networkVars
    /\ UNCHANGED clientVars

RemoveDevice_FoldCase(name) ==
    /\ store = "ready"
    /\ IF \A n \in DOMAIN Devices : ToLower(n) # ToLower(name)
       THEN /\ last' = Call("RemoveDevice", name, << >>,
                            Error("NotFound", name), << >>, 0, FALSE,
                            FALSE, "")
            /\ UNCHANGED <<Devices, file>>
       ELSE \E n \in {k \in DOMAIN Devices : ToLower(k) = ToLower(name)} :
            \E outcome \in SaveOutcomes :
              LET saved == Save(MapDelete(Devices, n), file, outcome)
              IN  /\ Devices' = MapDelete(Devices, n)
                  /\ file' = saved.file
                  /\ last' = Call("RemoveDevice", name, << >>, saved.err,
                                  << >>, 0, FALSE, Stale(Devices, file), outcome)
    /\ UNCHANGED <<store, clock>>
    /\ UNCHANGED networkVars
    /\ UNCHANGED clientVars

RemoveDevice(name) ==
    /\ store = "ready"
    /\ IF name \notin DOMAIN Devices
       THEN /\ last' = Call("RemoveDevice", name, << >>,
                            Error("NotFound", name), << >>, 0, FALSE,
                            FALSE, "")
            /\ UNCHANGED <<Devices, file>>
       ELSE \E outcome \in SaveOutcomes :
              LET saved == Save(MapDelete(Devices, name), file, outcome)
              IN  /\ Devices' = MapDelete(Devices, name)
                  /\ file' = saved.file
                  /\ last' = Call("RemoveDevice", name, << >>, saved.err,
                                  << >>, 0, FALSE, Stale(Devices, file), outcome)
    /\ UNCHANGED <<store, clock>>
    /\ UNCHANGED networkVars
    /\ UNCHANGED clientVars

GetDevice(name) ==
    /\ store = "ready"
    /\ last' = IF name \in DOMAIN Devices
               THEN Call("GetDevice", name, << >>, NoError,
                         <<Devices[name]>>, 0, FALSE, FALSE, "")
               ELSE Call("GetDevice", name, << >>, Error("NotFound", name),
                         << >>, 0, FALSE, FALSE, "")
    /\ UNCHANGED <<store, Devices, file, clock>>
    /\ UNCHANGED networkVars
    /\ UNCHANGED clientVars

ListDevices ==
    /\ store = "ready"
    /\ \E order \in MapOrders(Devices) :
         last' = Call("ListDevices", << >>, << >>, NoError,
                      ListDevicesIn(Devices, order), 0, FALSE, FALSE, "")
    /\ UNCHANGED <<store, Devices, file, clock>>
    /\ UNCHANGED networkVars
    /\ UNCHANGED clientVars

UpdateLastWoken_ResetAddedAt(name) ==
    /\ store = "ready"
    /\ IF name \notin DOMAIN Devices
       THEN /\ last' = Call("UpdateLastWoken", name, << >>,
                            Error("NotFound", name), << >>, 0, FALSE,
                            FALSE, "")
            /\ UNCHANGED <<Devices, file, clock>>
       ELSE /\ clock < MaxClock
            /\ clock' = clock + 1
            /\ \E outcome \in SaveOutcomes :
                 LET ds    == [Devices EXCEPT ![name].LastWoken = Now(clock + 1),
                                             ![name].AddedAt = Now(clock + 1)]
                     saved == Save(ds, file, outcome)
                 IN  /\ Devices' = ds
                     /\ file' = saved.file
                     /\ last' = Call("UpdateLastWoken", name, << >>,
                                     saved.err, << >>, 0, FALSE,
                                     Stale(Devices, file), outcome)
    /\ UNCHANGED store
    /\ UNCHANGED networkVars
    /\ UNCHANGED clientVars

UpdateLastWoken(name) ==
    /\ store = "ready"
    /\ IF name \notin DOMAIN Devices
       THEN /\ last' = Call("UpdateLastWoken", name, << >>,
                            Error("NotFound", name), << >>, 0, FALSE,
                            FALSE, "")
            /\ UNCHANGED <<Devices, file, clock>>
       ELSE /\ clock < MaxClock
            /\ clock' = clock + 1
            /\ \E outcome \in SaveOutcomes :
                 LET ds    == [Devices EXCEPT ![name].LastWoken = Now(clock + 1)]
                     saved == Save(ds, file, outcome)
                 IN  /\ Devices' = ds
                     /\ file' = saved.file
                     /\ last' = Call("UpdateLastWoken", name, << >>,
                                     saved.err, << >>, 0, FALSE,
                                     Stale(Devices, file), outcome)
    /\ UNCHANGED store
    /\ UNCHANGED networkVars
    /\ UNCHANGED clientVars

DeviceExists(name) ==
    /\ store = "ready"
    /\ last' = Call("DeviceExists", name, << >>, NoError, << >>, 0,
                    name \in DOMAIN Devices, FALSE, "")
    /\ UNCHANGED <<store, Devices, file, clock>>
    /\ UNCHANGED networkVars
    /\ UNCHANGED clientVars

GetDeviceCount ==
    /\ store = "ready"
    /\ last' = Call("GetDeviceCount", << >>, << >>, NoError, << >>,
                    Cardinality(DOMAIN Devices), FALSE, FALSE, "")
    /\ UNCHANGED <<store, Devices, file, clock>>
    /\ UNCHANGED networkVars
    /\ UNCHANGED clientVars

Next ==
    \/ (store = "none" /\ NewDeviceStore)
    \/ \E req \in AddRequests : AddDevice(req)
    \/ \E name \in QueryNames : RemoveDevice(name)
    \/ \E name \in QueryNames : GetDevice(name)
    \/ ListDevices
    \/ \E name \in QueryNames : UpdateLastWoken(name)
    \/ \E name \in QueryNames : DeviceExists(name)
    \/ GetDeviceCount

Spec == Init /\ [][Next]_vars

(***************************************************************************)
(* Round trips: only mutating calls that return success, process restarts, *)
(* and reads of the registry                                               *)
(***************************************************************************)
NextRoundTrip ==
    \/ NewDeviceStore
    \/ \E req \in AddRequests : AddDevice(req) /\ last'.err = NoError
    \/ \E name \in QueryNames : UpdateLastWoken(name) /\ last'.err = NoError
    \/ \E name \in QueryNames : GetDevice(name)
    \/ GetDeviceCount

SpecRoundTrip == Init /\ [][NextRoundTrip]_vars

(***************************************************************************)
(* A process that finds the file an earlier process has written           *)
(***************************************************************************)
\* the registry of the earlier process: "nas" on port 7, added before this
\* process's clock started and never woken
StoredDevices ==
    MapSet(EmptyMap, Name_nas,
           [ZeroDevice EXCEPT !.Name = Name_nas, !.MACAddress = MAC_11Colon,
                              !.Port = AlternativeWoLPort,
                              !.AddedAt = [wall |-> -1, mono |-> FALSE]])

InitStored ==
    /\ store = "none"
    /\ Devices = EmptyMap
    /\ file = FileJSON(MarshalIndent(StoredDevices))
    /\ clock = 0
    /\ last = Call("start", << >>, << >>, NoError, << >>, 0, FALSE, FALSE, "")
    /\ NetworkIdle
    /\ ClientsIdle

SpecStored == InitStored /\ [][Next]_vars

(***************************************************************************)
(* BuildMagicPacket on its own: every input a call is made with            *)
(***************************************************************************)
Seps == {<<Colon>>, <<Dash>>, << >>}

\* "00", "1b", "63", "84", each followed by sep
FirstFour(sep) ==
    <<48, 48>> \o sep \o <<49, 98>> \o sep \o <<54, 51>> \o sep
    \o <<56, 52>> \o sep

\* "45", "4G", "4", "eE"
Fifth == {<<52, 53>>, <<52, 71>>, <<52>>, <<101, 69>>}

\* "e6", "E6", "e", "e6:", "é", "e6\n"
Sixth == {<<101, 54>>, <<69, 54>>, <<101>>, <<101, 54, 58>>, <<195, 169>>,
          <<101, 54, 10>>}

\* "invalid", "AA:BB:CC:DD:EE:FF:00"
MAC_invalid == <<105, 110, 118, 97, 108, 105, 100>>
MAC_tooLong == MAC_aaColon \o <<58, 48, 48>>

MACInputs ==
    {MAC_aaColon, MAC_aaMixed, MAC_11Colon, MAC_11Bare, MAC_00Dash, MAC_short,
     MAC_nonHex, MAC_invalid, MAC_tooLong, << >>}
    \cup {FirstFour(s1) \o o5 \o s2 \o o6 :
              s1 \in Seps, s2 \in Seps, o5 \in Fifth, o6 \in Sixth}

\* a call is about to be made with one of the inputs
InitPacket ==
    /\ store = "none"
    /\ Devices = EmptyMap
    /\ file = FileAbsent
    /\ clock = 0
    /\ \E mac \in MACInputs : last = [op |-> "call", mac |-> mac]
    /\ NetworkIdle
    /\ ClientsIdle

CallBuildMagicPacket ==
    /\ last.op = "call"
    /\ last' = [op |-> "BuildMagicPacket", mac |-> last.mac,
                packet |-> BuildMagicPacket(last.mac).packet,
                err |-> BuildMagicPacket(last.mac).err]
    /\ UNCHANGED registryVars
    /\ UNCHANGED networkVars
    /\ UNCHANGED clientVars

NextPacket == CallBuildMagicPacket

SpecPacket == InitPacket /\ [][NextPacket]_vars

(***************************************************************************)
(* SendWakePacket on its own                                               *)
(***************************************************************************)
\* magic packets, and slices of other lengths
SendPackets ==
    {BuildMagicPacket(mac).packet : mac \in {MAC_aaColon, MAC_11Bare, MAC_00Dash}}
    \cup {Zeros(n) : n \in {0, 50, PacketLen - 1, PacketLen, PacketLen + 1, 150}}

SendPorts == {DefaultWoLPort, AlternativeWoLPort, 0, -1, MaxPort + 1}

CallSendWakePacket(packet, port) ==
    /\ \E env \in SendOutcomes :
         LET r == SendWakePacket(packet, port, env)
         IN  /\ last' = [op |-> "SendWakePacket", packet |-> packet,
                         port |-> port, err |-> r.err, events |-> r.events,
                         written |-> r.written]
             /\ net' = AfterSend(net, r)
    /\ UNCHANGED registryVars
    /\ UNCHANGED <<main, capture, captureResult>>
    /\ UNCHANGED clientVars

NextSend == \E packet \in SendPackets, port \in SendPorts : CallSendWakePacket(packet, port)

SpecSend == Init /\ [][NextSend]_vars

(***************************************************************************)
(* Waking: the command line's handleWake and the server's handleWakeByName *)
(***************************************************************************)
\* DeviceStore.UpdateLastWoken on the map ds and the file f
UpdateLastWokenApply(ds, f, name, now, outcome) ==
    IF name \notin DOMAIN ds
    THEN [Devices |-> ds, file |-> f, err |-> Error("NotFound", name)]
    ELSE [Devices |-> [ds EXCEPT ![name].LastWoken = now],
          file    |-> Save([ds EXCEPT ![name].LastWoken = now], f, outcome).file,
          err     |-> Save([ds EXCEPT ![name].LastWoken = now], f, outcome).err]

\* "Unknown Device"
UnknownDevice == <<85, 110, 107, 110, 111, 119, 110, 32, 68, 101, 118, 105, 99, 101>>

ResolveTarget_MACFirst(ds, target, port) ==
    IF ValidateMAC(target) = ""
    THEN [err |-> NoError, macAddress |-> target, deviceName |-> UnknownDevice,
          port |-> port]
    ELSE IF target \in DOMAIN ds
    THEN [err |-> NoError,
          macAddress |-> ds[target].MACAddress,
          deviceName |-> ds[target].Name,
          port |-> IF port = DefaultWoLPort /\ ds[target].Port # DefaultWoLPort
                   THEN ds[target].Port ELSE port]
    ELSE [err |-> Error("UnknownTarget", << >>), macAddress |-> << >>,
          deviceName |-> << >>, port |-> port]

ResolveTarget_NoValidation(ds, target, port) ==
    IF target \in DOMAIN ds
    THEN [err |-> NoError,
          macAddress |-> ds[target].MACAddress,
          deviceName |-> ds[target].Name,
          port |-> IF port = DefaultWoLPort /\ ds[target].Port # DefaultWoLPort
                   THEN ds[target].Port ELSE port]
    ELSE [err |-> NoError, macAddress |-> target, deviceName |-> UnknownDevice,
          port |-> port]

\* handleWake, from its first statement to the choice of the MAC and the
\* port: a registered name gives the device's MAC, and the device's port
\* unless another port than the default was asked for; any other target
\* must be a MAC address
ResolveTarget(ds, target, port) ==
    IF target \in DOMAIN ds
    THEN [err |-> NoError,
          macAddress |-> ds[target].MACAddress,
          deviceName |-> ds[target].Name,
          port |-> IF port = DefaultWoLPort /\ ds[target].Port # DefaultWoLPort
                   THEN ds[target].Port ELSE port]
    ELSE IF ValidateMAC(target) # ""
    THEN [err |-> Error("UnknownTarget", << >>), macAddress |-> << >>,
          deviceName |-> << >>, port |-> port]
    ELSE [err |-> NoError, macAddress |-> target, deviceName |-> UnknownDevice,
          port |-> port]

Bookkeeping_ByMAC(ds, f, target, now, outcome) ==
    IF target \in DOMAIN ds
    THEN [called |-> TRUE] @@ UpdateLastWokenApply(ds, f, target, now, outcome)
    ELSE IF \E n \in DOMAIN ds : CleanMAC(ds[n].MACAddress) = CleanMAC(target)
    THEN [called |-> TRUE]
         @@ UpdateLastWokenApply(ds, f,
                CHOOSE n \in DOMAIN ds : CleanMAC(ds[n].MACAddress) = CleanMAC(target),
                now, outcome)
    ELSE [called |-> FALSE, Devices |-> ds, file |-> f, err |-> NoError]

\* handleWake after the packet was sent: if store.DeviceExists(target),
\* UpdateLastWoken(target), whose error is only logged
Bookkeeping(ds, f, target, now, outcome) ==
    IF target \in DOMAIN ds
    THEN [called |-> TRUE] @@ UpdateLastWokenApply(ds, f, target, now, outcome)
    ELSE [called |-> FALSE, Devices |-> ds, file |-> f, err |-> NoError]

WakeStatus_FailOnBookkeeping(sendErr, updateErr) ==
    IF sendErr # NoError \/ updateErr # NoError THEN "failed" ELSE "ok"

\* how a wake ends once its target is resolved: "failed" is os.Exit(1) on
\* the command line and an error response from the server, "ok" the success
\* message and the response with Success true
WakeStatus(sendErr, updateErr) ==
    IF sendErr # NoError THEN "failed" ELSE "ok"

\* the record of a wake: what was asked, the MAC and port chosen, the packet
\* built (none: << >>), the network calls and the datagram of the send, the
\* error of the send, the verification result, whether UpdateLastWoken was
\* called and its error
Wake(op, call, status, err, t, sent, result, called, updateErr) ==
    [op |-> op, target |-> call.target, port |-> call.port,
     verify |-> call.verify, verifyCapture |-> call.verifyCapture,
     verifyPing |-> call.verifyPing,
     status |-> status, err |-> err,
     macAddress |-> t.macAddress, portUsed |-> t.port,
     packet |-> sent.packet, events |-> sent.events, written |-> sent.written,
     sendErr |-> sent.err, result |-> result,
     called |-> called, updateErr |-> updateErr]

\* nothing was built or sent
NothingSent ==
    [err |-> NoError, results |-> {ZeroResult}, packet |-> << >>,
     events |-> << >>, written |-> << >>]

\* the devices the wake runs are set up with: "pc" on the default port,
\* "nas" with a negative port, and a device whose name is the MAC address of
\* "nas" written without separators, on port 7
WakeRequests ==
    { Request(Name_pc, MAC_aaColon, Text_desktop, Text_ip1, DefaultWoLPort),
      Request(Name_nas, MAC_11Colon, << >>, << >>, -1),
      Request(MAC_11Bare, MAC_00Dash, << >>, << >>, AlternativeWoLPort) }

\* wol-server [-port p] [-verify] [-verify-capture] [-verify-ping] wake <target>
WakeCall(target, port, verify, verifyCapture, verifyPing) ==
    [target |-> target, port |-> port, verify |-> verify,
     verifyCapture |-> verifyCapture, verifyPing |-> verifyPing]

\* the wakes of the command line: by name, by a name that is a MAC address,
\* by the MAC of "pc" in another style, by strings that are neither; on the
\* default port (the flag not given) and on port 7; plain and verified
WakeCalls ==
    { WakeCall(Name_pc, DefaultWoLPort, FALSE, FALSE, FALSE),
      WakeCall(Name_pc, AlternativeWoLPort, FALSE, TRUE, TRUE),
      WakeCall(Name_nas, DefaultWoLPort, FALSE, FALSE, FALSE),
      WakeCall(Name_nas, AlternativeWoLPort, TRUE, FALSE, FALSE),
      WakeCall(MAC_11Bare, DefaultWoLPort, FALSE, FALSE, FALSE),
      WakeCall(MAC_aaMixed, DefaultWoLPort, FALSE, FALSE, FALSE),
      WakeCall(MAC_aaMixed, AlternativeWoLPort, FALSE, TRUE, TRUE),
      WakeCall(Name_PC, DefaultWoLPort, FALSE, FALSE, FALSE),
      WakeCall(MAC_short, DefaultWoLPort, FALSE, TRUE, TRUE) }

\* POST /api/wake/{name}[?port=p]: port is 0 when absent or not a number
WakeByNameCalls ==
    { WakeCall(Name_pc, 0, FALSE, FALSE, FALSE),
      WakeCall(Name_nas, 0, FALSE, FALSE, FALSE),
      WakeCall(Name_nas, AlternativeWoLPort, FALSE, FALSE, FALSE),
      WakeCall(MAC_11Bare, 0, FALSE, FALSE, FALSE),
      WakeCall(Name_PC, 0, FALSE, FALSE, FALSE) }

\* the end of a wake whose packet went out: the bookkeeping, and success
\* whatever the bookkeeping returned
WakeSucceeds(op, call, t, sent) ==
    IF call.target \in DOMAIN Devices
    THEN /\ clock < MaxClock
         /\ clock' = clock + 1
         /\ \E outcome \in SaveOutcomes :
            \E b \in {Bookkeeping(Devices, file, call.target, Now(clock + 1),
                                  outcome)} :
              /\ Devices' = b.Devices
              /\ file' = b.file
              /\ \E result \in sent.results :
                   last' = Wake(op, call, WakeStatus(sent.err, b.err),
                                NoError, t, sent, result, b.called, b.err)
    ELSE \E b \in {Bookkeeping(Devices, file, call.target, Now(clock), "ok")} :
           /\ Devices' = b.Devices
           /\ file' = b.file
           /\ \E result \in sent.results :
                last' = Wake(op, call, WakeStatus(sent.err, b.err), NoError,
                             t, sent, result, b.called, b.err)
           /\ UNCHANGED clock

\* the end of a wake whose packet could not be built or sent
WakeFails(op, call, t, sent) ==
    /\ \E result \in sent.results :
         last' = Wake(op, call, WakeStatus(sent.err, NoError), sent.err, t,
                      sent, result, FALSE, NoError)
    /\ UNCHANGED <<Devices, file, clock>>

\* main.go handleWake: one "wake <target>" of the command line
handleWake(call) ==
    /\ store = "ready"
    /\ \E t \in {ResolveTarget(Devices, call.target, call.port)} :
       LET verifying == call.verify \/ call.verifyCapture \/ call.verifyPing
           config    == VerificationConfig(call.verifyCapture, call.verifyPing)
       IN  IF t.err # NoError
           THEN /\ last' = Wake("handleWake", call, "failed", t.err, t,
                                NothingSent, ZeroResult, FALSE, NoError)
                /\ UNCHANGED <<Devices, file, clock, net>>
           ELSE \E built \in {BuildMagicPacket(t.macAddress)} :
                \E env \in SendOutcomes :
                \E sent \in {IF verifying
                             THEN SendBuiltWithVerification(
                                      built, t.port, config, env)
                             ELSE SendBuilt(built, t.port, env)} :
                  /\ net' = AfterSend(net, sent)
                  /\ IF sent.err # NoError
                     THEN WakeFails("handleWake", call, t, sent)
                     ELSE WakeSucceeds("handleWake", call, t, sent)
    /\ UNCHANGED store
    /\ UNCHANGED <<main, capture, captureResult>>
    /\ UNCHANGED clientVars

\* server.go handleWakeByName: POST /api/wake/{name}
handleWakeByName(call) ==
    /\ store = "ready"
    /\ IF call.target \notin DOMAIN Devices
       THEN /\ last' = Wake("handleWakeByName", call, "failed",
                            Error("NotFound", call.target),
                            [macAddress |-> << >>, port |-> call.port],
                            NothingSent, ZeroResult, FALSE, NoError)
            /\ UNCHANGED <<Devices, file, clock, net>>
       ELSE \E t \in {[macAddress |-> Devices[call.target].MACAddress,
                       port |-> IF call.port = 0
                                THEN Devices[call.target].Port
                                ELSE call.port]} :
            \E built \in {BuildMagicPacket(t.macAddress)} :
            \E env \in SendOutcomes :
            \E sent \in {SendBuilt(built, t.port, env)} :
              /\ net' = AfterSend(net, sent)
              /\ IF sent.err # NoError
                 THEN WakeFails("handleWakeByName", call, t, sent)
                 ELSE WakeSucceeds("handleWakeByName", call, t, sent)
    /\ UNCHANGED store
    /\ UNCHANGED <<main, capture, captureResult>>
    /\ UNCHANGED clientVars

NextWake ==
    \/ (store = "none" /\ NewDeviceStore)
    \/ \E req \in WakeRequests : AddDevice(req) /\ last'.err = NoError
    \/ \E call \in WakeCalls : handleWake(call)
    \/ \E call \in WakeByNameCalls : handleWakeByName(call)

SpecWake == Init /\ [][NextWake]_vars

(***************************************************************************)
(* SendWakeOnLANWithVerification step by step, with its capture goroutine  *)
(***************************************************************************)
\* the datagrams the capture listener holds at most before it reads one
MaxQueue == 1

\* isMagicPacket: 102 bytes, six of them 0xFF, then 16 times the six bytes
\* of targetMAC, which BuildMagicPacket has validated before the goroutine
\* is started
isMagicPacket(packet, targetMAC) ==
    /\ Len(packet) = PacketLen
    /\ \A i \in 0..5 : packet[i + 1] = 255
    /\ LET targetBytes == HexDecode(CleanMAC(targetMAC))
       IN  \A i \in 0..15 : \A j \in 0..5 :
               packet[6 + i * 6 + j + 1] = targetBytes[j + 1]

\* the calls of the step-by-step runs: a valid and an invalid address, a
\* port that resolves and one that does not, every VerificationConfig
VerifyMACs == {MAC_aaColon, MAC_short}
VerifyPorts == {DefaultWoLPort, MaxPort + 1}
VerifyConfigs ==
    {VerificationConfig(c, p) : c \in BOOLEAN, p \in BOOLEAN}

\* datagrams of other hosts that reach the listener: the magic packet of
\* another address, and one that is not 102 bytes long
ForeignDatagrams == {BuildMagicPacket(MAC_11Colon).packet, <<1, 2, 3>>}

\* the caller after the select took the value captured from the channel
SelectCaptured(m, captured) ==
    [m EXCEPT !.pc = "ping",
              !.result.PacketCaptured = captured,
              !.result.CaptureDetails =
                  IF captured THEN "Magic packet detected on network"
                  ELSE "No magic packet detected during capture window"]

SelectAfter_Fail(m) ==
    [m EXCEPT !.pc = "done",
              !.result.CaptureDetails = "Capture timeout",
              !.result.Error = Error("CaptureTimeout", << >>),
              !.err = Error("CaptureTimeout", << >>)]

\* the caller after the select took the timer
SelectAfter(m) ==
    [m EXCEPT !.pc = "ping", !.result.CaptureDetails = "Capture timeout"]

MakeChan_Unbuffered(size) == [made |-> TRUE, cap |-> 0, buf |-> << >>]

\* make(chan bool, size): an empty channel that buffers size values
MakeChan(size) == [made |-> TRUE, cap |-> size, buf |-> << >>]

\* lines 144-170: getNetworkInfo, BuildMagicPacket and, with EnableCapture,
\* the channel of capacity 1 and the goroutine
VerifyCall(mac, port, config) ==
    /\ main.pc = "idle"
    /\ \E info \in NetworkInfos :
       \E built \in {BuildMagicPacket(mac)} :
         IF built.err # NoError
         THEN /\ main' = [pc |-> "done", mac |-> mac, port |-> port,
                          config |-> config, info |-> info,
                          packet |-> << >>, sendErr |-> NoError,
                          written |-> << >>,
                          result |-> [ZeroResult EXCEPT
                                         !.Error = Error("BuildFailed", << >>)],
                          err |-> Error("BuildFailed", << >>)]
              /\ UNCHANGED <<capture, captureResult>>
         ELSE /\ main' = [pc |-> "send", mac |-> mac, port |-> port,
                          config |-> config, info |-> info,
                          packet |-> built.packet, sendErr |-> NoError,
                          written |-> << >>,
                          result |-> ZeroResult, err |-> NoError]
              /\ IF config.EnableCapture
                 THEN /\ captureResult' = MakeChan(1)
                      /\ capture' = [pc |-> "start", value |-> FALSE,
                                     sends |-> 0]
                 ELSE UNCHANGED <<capture, captureResult>>
    /\ UNCHANGED <<store, Devices, file, clock, last, net>>
    /\ UNCHANGED clientVars

\* lines 172-178: SendWakePacket; a datagram written while the listener is
\* bound to the port may reach it
VerifySend ==
    /\ main.pc = "send"
    /\ \E env \in SendOutcomes :
       \E sent \in {SendWakePacket(main.packet, main.port, env)} :
         /\ IF sent.err # NoError
            THEN main' = [main EXCEPT
                             !.pc = "done",
                             !.sendErr = sent.err,
                             !.written = sent.written,
                             !.result.Error = Error("SendFailed", << >>),
                             !.err = Error("SendFailed", << >>)]
            ELSE main' = [main EXCEPT
                             !.pc = IF main.config.EnableCapture
                                    THEN "select" ELSE "ping",
                             !.written = sent.written,
                             !.result.PacketSent = TRUE,
                             !.result.BroadcastSent = TRUE]
         /\ \E delivered \in BOOLEAN :
              net' = [AfterSend(net, sent) EXCEPT
                         !.queue =
                             IF /\ delivered
                                /\ sent.written # << >>
                                /\ net.listen = <<main.port>>
                                /\ Len(@) < MaxQueue
                             THEN Append(@, sent.written[1].data)
                             ELSE @]
    /\ UNCHANGED <<store, Devices, file, clock, last, capture, captureResult>>
    /\ UNCHANGED clientVars

\* lines 182-190: the select receives from the channel
SelectReceive ==
    /\ main.pc = "select"
    /\ captureResult.buf # << >>
    /\ main' = SelectCaptured(main, Head(captureResult.buf))
    /\ captureResult' = [captureResult EXCEPT !.buf = Tail(@)]
    /\ UNCHANGED <<store, Devices, file, clock, last, net, capture>>
    /\ UNCHANGED clientVars

\* lines 191-193: the timer of the select fires
SelectTimeout ==
    /\ main.pc = "select"
    /\ main' = SelectAfter(main)
    /\ UNCHANGED <<store, Devices, file, clock, last, net, capture,
                   captureResult>>
    /\ UNCHANGED clientVars

\* lines 197-209: the ping, if enabled and a broadcast address is known,
\* and the return
VerifyPing ==
    /\ main.pc = "ping"
    /\ IF main.config.EnablePing /\ main.info = "broadcast"
       THEN \E ping \in BOOLEAN :
              main' = [main EXCEPT !.pc = "done",
                                   !.result.TargetReachable = ping]
       ELSE main' = [main EXCEPT !.pc = "done"]
    /\ UNCHANGED <<store, Devices, file, clock, last, net, capture,
                   captureResult>>
    /\ UNCHANGED clientVars

\* captureWoLPacket lines 269-285: resolve ":port" and listen on it; either
\* can fail, and then false is to be sent
CaptureListen ==
    /\ capture.pc = "start"
    /\ IF main.port < 0 \/ main.port > MaxPort
       THEN /\ capture' = [capture EXCEPT !.pc = "send", !.value = FALSE]
            /\ UNCHANGED net
       ELSE \E ok \in BOOLEAN :
              IF ok /\ net.listen = << >>
              THEN /\ capture' = [capture EXCEPT !.pc = "read"]
                   /\ net' = [net EXCEPT !.listen = <<main.port>>]
              ELSE /\ capture' = [capture EXCEPT !.pc = "send",
                                                 !.value = FALSE]
                   /\ UNCHANGED net
    /\ UNCHANGED <<store, Devices, file, clock, last, main, captureResult>>
    /\ UNCHANGED clientVars

\* lines 289-307: ReadFromUDP returns a datagram; a magic packet of the
\* target ends the loop with true, anything else is skipped
CaptureRead ==
    /\ capture.pc = "read"
    /\ net.queue # << >>
    /\ net' = [net EXCEPT !.queue = Tail(@)]
    /\ IF /\ Len(Head(net.queue)) = 102
          /\ isMagicPacket(Head(net.queue), main.mac)
       THEN capture' = [capture EXCEPT !.pc = "send", !.value = TRUE]
       ELSE UNCHANGED capture
    /\ UNCHANGED <<store, Devices, file, clock, last, main, captureResult>>
    /\ UNCHANGED clientVars

\* lines 290-294: the read deadline passes
CaptureReadTimeout ==
    /\ capture.pc = "read"
    /\ capture' = [capture EXCEPT !.pc = "send", !.value = FALSE]
    /\ UNCHANGED <<store, Devices, file, clock, last, main, captureResult,
                   net>>
    /\ UNCHANGED clientVars

\* result <- value, which waits while the buffer of the channel is full,
\* and the return, which closes the listener if one was opened
CaptureSend ==
    /\ capture.pc = "send"
    /\ Len(captureResult.buf) < captureResult.cap
    /\ captureResult' = [captureResult EXCEPT !.buf = Append(@, capture.value)]
    /\ capture' = [capture EXCEPT !.pc = "done", !.sends = @ + 1]
    /\ net' = [net EXCEPT !.listen = << >>, !.queue = << >>]
    /\ UNCHANGED <<store, Devices, file, clock, last, main>>
    /\ UNCHANGED clientVars

\* a datagram of another host reaches the listener
ForeignDatagram ==
    /\ net.listen # << >>
    /\ Len(net.queue) < MaxQueue
    /\ \E data \in ForeignDatagrams :
         net' = [net EXCEPT !.queue = Append(@, data)]
    /\ UNCHANGED <<store, Devices, file, clock, last, main, capture,
                   captureResult>>
    /\ UNCHANGED clientVars

InitVerify ==
    /\ store = "none"
    /\ Devices = EmptyMap
    /\ file = FileAbsent
    /\ clock = 0
    /\ last = Call("start", << >>, << >>, NoError, << >>, 0, FALSE, FALSE, "")
    /\ NetworkIdle
    /\ ClientsIdle

NextVerify ==
    \/ \E mac \in VerifyMACs, port \in VerifyPorts, config \in VerifyConfigs :
         VerifyCall(mac, port, config)
    \/ VerifySend
    \/ SelectReceive
    \/ SelectTimeout
    \/ VerifyPing
    \/ CaptureListen
    \/ CaptureRead
    \/ CaptureReadTimeout
    \/ CaptureSend
    \/ ForeignDatagram

SpecVerify == InitVerify /\ [][NextVerify]_vars

\* the goroutine is scheduled: it resolves and listens, its read returns at
\* the latest when the deadline set by SetReadDeadline passes, and its send
\* is carried out when the channel takes the value
SpecVerifyLive ==
    /\ SpecVerify
    /\ WF_vars(CaptureListen)
    /\ WF_vars(CaptureReadTimeout)
    /\ WF_vars(CaptureSend)

(***************************************************************************)
(* The server's PUT /api/devices/{name}                                    *)
(***************************************************************************)
\* DeviceStore.RemoveDevice on the map ds and the file f
RemoveDeviceApply(ds, f, name, outcome) ==
    IF name \notin DOMAIN ds
    THEN [Devices |-> ds, file |-> f, err |-> Error("NotFound", name)]
    ELSE [Devices |-> MapDelete(ds, name),
          file    |-> Save(MapDelete(ds, name), f, outcome).file,
          err     |-> Save(MapDelete(ds, name), f, outcome).err]

\* the bodies of the update requests: one that is not JSON, one without
\* members, one that sets a description and a port
UpdateBody(valid, description, ipAddress, port) ==
    [valid |-> valid, description |-> description, ipAddress |-> ipAddress,
     port |-> port]

UpdateBodies ==
    { UpdateBody(FALSE, << >>, << >>, 0),
      UpdateBody(TRUE, << >>, << >>, 0),
      UpdateBody(TRUE, Text_desktop, << >>, AlternativeWoLPort) }

\* the AddDevice arguments handleUpdateDevice makes of the body and the
\* device it got: an empty or zero member keeps the device's value
UpdateRequest(name, device, body) ==
    Request(name, device.MACAddress,
            IF body.description = << >> THEN device.Description
            ELSE body.description,
            IF body.ipAddress = << >> THEN device.IPAddress
            ELSE body.ipAddress,
            IF body.port = 0 THEN device.Port ELSE body.port)

\* the record of an update: the response status and the errors of the two
\* registry calls
Update(name, body, status, removeErr, addErr) ==
    [op |-> "handleUpdateDevice", name |-> name, body |-> body,
     status |-> status, removeErr |-> removeErr, addErr |-> addErr]

\* server.go handleUpdateDevice
handleUpdateDevice(name, body) ==
    /\ store = "ready"
    /\ IF name \notin DOMAIN Devices
       THEN /\ last' = Update(name, body, 404, NoError, NoError)
            /\ UNCHANGED <<Devices, file, clock>>
       ELSE IF ~ body.valid
       THEN /\ last' = Update(name, body, 400, NoError, NoError)
            /\ UNCHANGED <<Devices, file, clock>>
       ELSE \E req \in {UpdateRequest(name, Devices[name], body)} :
            \E outcome \in SaveOutcomes :
            \E removed \in {RemoveDeviceApply(Devices, file, name, outcome)} :
              IF removed.err # NoError
              THEN /\ Devices' = removed.Devices
                   /\ file' = removed.file
                   /\ last' = Update(name, body, 500, removed.err, NoError)
                   /\ UNCHANGED clock
              ELSE \E err \in AddDeviceErrors(removed.Devices,
                                              TrimSpace(req.name), req.mac) :
                     IF err # NoError
                     THEN /\ Devices' = removed.Devices
                          /\ file' = removed.file
                          /\ last' = Update(name, body, 500, NoError, err)
                          /\ UNCHANGED clock
                     ELSE /\ clock < MaxClock
                          /\ clock' = clock + 1
                          /\ \E saving \in SaveOutcomes :
                             \E added \in
                                 {AddDeviceApply(removed.Devices, removed.file,
                                      TrimSpace(req.name),
                                      NewDevice(TrimSpace(req.name), req,
                                                Now(clock + 1)),
                                      err, saving)} :
                               /\ Devices' = added.Devices
                               /\ file' = added.file
                               /\ last' = Update(name, body,
                                              IF added.err = NoError
                                              THEN 200 ELSE 500,
                                              NoError, added.err)
    /\ UNCHANGED store
    /\ UNCHANGED networkVars
    /\ UNCHANGED clientVars

\* POST /api/devices with a body AddDevice accepts, and the updates
NextUpdate ==
    \/ (store = "none" /\ NewDeviceStore)
    \/ \E req \in WakeRequests : AddDevice(req) /\ last'.err = NoError
    \/ \E name \in QueryNames, body \in UpdateBodies :
         handleUpdateDevice(name, body)

SpecUpdate == InitStored /\ [][NextUpdate]_vars

(***************************************************************************)
(* The command line: main's dispatch on the first argument                 *)
(***************************************************************************)
Name_ls == <<108, 115>>
Name_list == <<108, 105, 115, 116>>
Name_netInfo == <<110, 101, 116, 45, 105, 110, 102, 111>>

\* case "add-device", "add"
AddCommands == {<<97, 100, 100, 45, 100, 101, 118, 105, 99, 101>>, <<97, 100, 100>>}

\* case "list-devices", "list", "ls"
ListCommands == {<<108, 105, 115, 116, 45, 100, 101, 118, 105, 99, 101, 115>>, Name_list, Name_ls}

\* case "remove-device", "remove", "rm"
RemoveCommands == {<<114, 101, 109, 111, 118, 101, 45, 100, 101, 118, 105, 99, 101>>, <<114, 101, 109, 111, 118, 101>>, <<114, 109>>}

\* case "show-device", "show"
ShowCommands == {<<115, 104, 111, 119, 45, 100, 101, 118, 105, 99, 101>>, <<115, 104, 111, 119>>}

\* case "wake"
WakeCommand == <<119, 97, 107, 101>>

\* case "verify-network", "net-info"
NetworkCommands == {<<118, 101, 114, 105, 102, 121, 45, 110, 101, 116, 119, 111, 114, 107>>, Name_netInfo}

\* case "test-broadcast"
TestBroadcastCommand == <<116, 101, 115, 116, 45, 98, 114, 111, 97, 100, 99, 97, 115, 116>>

\* the switch on args[0]: the handler the command goes to; "handleWake" is
\* the default branch, which wakes the target args[0]
Dispatch(command) ==
    IF command \in AddCommands THEN "handleAddDevice"
    ELSE IF command \in ListCommands THEN "handleListDevices"
    ELSE IF command \in RemoveCommands THEN "handleRemoveDevice"
    ELSE IF command \in ShowCommands THEN "handleShowDevice"
    ELSE IF command = WakeCommand THEN "wake"
    ELSE IF command \in NetworkCommands THEN "handleNetworkInfo"
    ELSE IF command = TestBroadcastCommand THEN "handleTestBroadcast"
    ELSE "handleWake"

\* wol-server <command>, with no further argument: the default branch wakes
\* the target; every other branch runs its handler, which with one argument
\* lists the devices, shows the network or prints its usage, and leaves the
\* registry as it is
RunCommand(command) ==
    IF Dispatch(command) = "handleWake"
    THEN handleWake(WakeCall(command, DefaultWoLPort, FALSE, FALSE, FALSE))
    ELSE /\ store = "ready"
         /\ last' = [op |-> Dispatch(command), command |-> command]
         /\ UNCHANGED <<store, Devices, file, clock>>
         /\ UNCHANGED networkVars
         /\ UNCHANGED clientVars

\* the devices the command-line runs add, and the first arguments they are
\* run with
CommandRequests ==
    { Request(Name_pc, MAC_aaColon, << >>, << >>, 0),
      Request(Name_ls, MAC_11Colon, << >>, << >>, 0),
      Request(Name_netInfo, MAC_00Dash, << >>, << >>, 0),
      Request(Name_Wake, MAC_00Dash, << >>, << >>, 0) }

Commands == {Name_pc, Name_ls, Name_list, Name_netInfo, WakeCommand, Name_nas}

NextCommand ==
    \/ (store = "none" /\ NewDeviceStore)
    \/ \E req \in CommandRequests : AddDevice(req)
    \/ \E command \in Commands : RunCommand(command)

SpecCommand == Init /\ [][NextCommand]_vars

(***************************************************************************)
(* A caller that keeps what GetDevice and ListDevices return               *)
(*                                                                         *)
(* Devices is a map[string]*Device.  GetDevice returns the pointer stored  *)
(* under the name and ListDevices appends the stored pointers to its       *)
(* slice, so what the caller holds is the Device the map holds, not a      *)
(* copy.  held names that Device by its key; the runs here never remove a  *)
(* device, so a pointer, once held, stays the one in the map.              *)
(***************************************************************************)
\* device, exists := ds.Devices[name]; return device, nil
KeepGetDevice(name) ==
    /\ store = "ready"
    /\ name \in DOMAIN Devices
    /\ held' = [name |-> name, from |-> "GetDevice"]
    /\ last' = Call("GetDevice", name, << >>, NoError, <<Devices[name]>>, 0,
                    FALSE, FALSE, "")
    /\ UNCHANGED <<store, Devices, file, clock, requests>>
    /\ UNCHANGED networkVars

\* devices = append(devices, device), for every device of the map; the
\* caller keeps one element of the slice
KeepListDevices ==
    /\ store = "ready"
    /\ \E order \in MapOrders(Devices) :
         LET devices == ListDevicesIn(Devices, order)
         IN  /\ last' = Call("ListDevices", << >>, << >>, NoError, devices, 0,
                             FALSE, FALSE, "")
             /\ \E i \in 1..Len(devices) :
                  held' = [name |-> devices[i].Name, from |-> "ListDevices"]
    /\ UNCHANGED <<store, Devices, file, clock, requests>>
    /\ UNCHANGED networkVars

\* the value a caller assigns to the Port of the Device it holds
CallerPorts == {AlternativeWoLPort, 4000}

\* *p with p.Port = port carried out: p is the pointer the map holds, so the
\* Device of the map is the one assigned to
Assign(ds, p, port) == [ds EXCEPT ![p.name].Port = port]

\* the caller assigns through the pointer it holds; no registry operation
\* runs and nothing is saved
WriteHeld(port) ==
    /\ held # NoReference
    /\ Devices' = Assign(Devices, held, port)
    /\ last' = Call("WriteHeld", held.name, << >>, NoError,
                    <<Devices'[held.name]>>, 0, FALSE, FALSE, "")
    /\ UNCHANGED <<store, file, clock, held, requests>>
    /\ UNCHANGED networkVars

NextHeld ==
    \/ (store = "none" /\ NewDeviceStore)
    \/ \E req \in CommandRequests : AddDevice(req)
    \/ \E name \in QueryNames : UpdateLastWoken(name)
    \/ \E name \in QueryNames : KeepGetDevice(name)
    \/ KeepListDevices
    \/ \E port \in CallerPorts : WriteHeld(port)

SpecHeld == Init /\ [][NextHeld]_vars

(***************************************************************************)
(* AddDevice called by requests that run at the same time                  *)
(*                                                                         *)
(* net/http serves every request on a goroutine of its own, and            *)
(* DeviceStore has no lock: the steps of one AddDevice interleave with the *)
(* steps of another.  A request goes through the checks on its own         *)
(* arguments, the duplicate checks that read the map, the insert, and Save,*)
(* which marshals the map and then writes the file.                        *)
(***************************************************************************)
\* the requests the server receives: two names with the same six bytes in
\* two spellings, a third device, and a name that is refused
ConcurrentRequests ==
    { Request(Name_pc, MAC_aaColon, << >>, << >>, 0),
      Request(Name_nas, MAC_aaMixed, << >>, << >>, 0),
      Request(Name_ls, MAC_11Colon, << >>, << >>, 0),
      Request(Name_blank, MAC_11Colon, << >>, << >>, 0) }

Returned(r, err) == [r EXCEPT !.pc = "done", !.err = err]

\* lines 54-74: the checks that read the arguments only
BeginAddDevice(id, req) ==
    /\ store = "ready"
    /\ requests[id].pc = "idle"
    /\ LET name == TrimSpace(req.name)
       IN  \E err \in AddDeviceErrors(EmptyMap, name, req.mac) :
             requests' = [requests EXCEPT ![id] =
                 [pc   |-> IF err = NoError THEN "check" ELSE "done",
                  req  |-> req,
                  name |-> name,
                  data |-> EmptyDoc,
                  err  |-> err]]
    /\ UNCHANGED <<store, Devices, file, clock, last, held>>
    /\ UNCHANGED networkVars

\* lines 76-84: the lookup of the name and the loop over the map
CheckDuplicates(id) ==
    /\ store = "ready"
    /\ requests[id].pc = "check"
    /\ \E err \in AddDeviceErrors(Devices, requests[id].name,
                                  requests[id].req.mac) :
         requests' = [requests EXCEPT ![id] =
             IF err = NoError THEN [@ EXCEPT !.pc = "insert"]
             ELSE Returned(@, err)]
    /\ UNCHANGED <<store, Devices, file, clock, last, held>>
    /\ UNCHANGED networkVars

\* another request is about to read or write the map, so that its access
\* and this request's write can fall together
MapAccessOverlaps(id) ==
    \E other \in RequestIds \ {id} :
        requests[other].pc \in {"check", "insert", "marshal"}

\* what an unsynchronised write to the map does when it falls together with
\* another access: the accesses happen one after the other, or the runtime
\* stops the process with "concurrent map writes" (or "concurrent map read
\* and map write")
RaceOutcomes(id) ==
    IF MapAccessOverlaps(id) THEN {"serial", "fatal"} ELSE {"serial"}

\* lines 86-99: the Device is built and put in the map
InsertDevice(id) ==
    /\ store = "ready"
    /\ requests[id].pc = "insert"
    /\ clock < MaxClock
    /\ \E race \in RaceOutcomes(id) :
         IF race = "fatal"
         THEN /\ store' = "crashed"
              /\ UNCHANGED <<Devices, clock, requests>>
         ELSE /\ clock' = clock + 1
              /\ Devices' = MapSet(Devices, requests[id].name,
                                   NewDevice(requests[id].name,
                                             requests[id].req,
                                             Now(clock + 1)))
              /\ requests' = [requests EXCEPT ![id].pc = "marshal"]
              /\ UNCHANGED store
    /\ UNCHANGED <<file, last, held>>
    /\ UNCHANGED networkVars

\* Save lines 166-174: MkdirAll, which can fail, and MarshalIndent of the
\* map as it is now
MarshalDevices(id) ==
    /\ store = "ready"
    /\ requests[id].pc = "marshal"
    /\ \E outcome \in SaveOutcomes \ {"write"} :
         requests' = [requests EXCEPT ![id] =
             IF outcome = "mkdir"
             THEN Returned(@, Save(Devices, file, outcome).err)
             ELSE [@ EXCEPT !.pc = "write",
                            !.data = MarshalIndent(Devices)]]
    /\ UNCHANGED <<store, Devices, file, clock, last, held>>
    /\ UNCHANGED networkVars

\* Save lines 176-181: WriteFile of the bytes marshalled before, and the
\* return of AddDevice
WriteFile(id) ==
    /\ store = "ready"
    /\ requests[id].pc = "write"
    /\ \E outcome \in SaveOutcomes \ {"mkdir"} :
         /\ file' = IF outcome = "ok" THEN FileJSON(requests[id].data)
                    ELSE Save(Devices, file, outcome).file
         /\ requests' = [requests EXCEPT ![id] =
                Returned(@, Save(Devices, file, outcome).err)]
    /\ UNCHANGED <<store, Devices, clock, last, held>>
    /\ UNCHANGED networkVars

NextConcurrent ==
    \/ (store = "none" /\ NewDeviceStore)
    \/ \E id \in RequestIds, req \in ConcurrentRequests :
         BeginAddDevice(id, req)
    \/ \E id \in RequestIds : CheckDuplicates(id)
    \/ \E id \in RequestIds : InsertDevice(id)
    \/ \E id \in RequestIds : MarshalDevices(id)
    \/ \E id \in RequestIds : WriteFile(id)

SpecConcurrent == Init /\ [][NextConcurrent]_vars

(***************************************************************************)
(* Properties                                                              *)
(***************************************************************************)
Mutators == {"AddDevice", "RemoveDevice", "UpdateLastWoken"}

\* six pairs of upper-case hexadecimal digits joined by colons
IsCanonicalMAC(mac) ==
    /\ Len(mac) = 17
    /\ \A i \in 1..17 : IF i % 3 = 0 THEN mac[i] = Colon ELSE IsHexUpper(mac[i])

\* the six bytes a valid address denotes
MACBytes(mac) == HexDecode(CleanMAC(mac))

\* both addresses are valid and denote the same six bytes
SameMAC(a, b) ==
    /\ ValidateMAC(a) = ""
    /\ ValidateMAC(b) = ""
    /\ MACBytes(a) = MACBytes(b)

\* C1: in a registry that started empty, every stored MAC address is six
\* upper-case hex pairs joined by colons, and no two devices have the same
\* six MAC bytes, whatever separators and letter case the inputs used.
C1_CanonicalUniqueMAC ==
    \A n \in DOMAIN Devices :
        /\ IsCanonicalMAC(Devices[n].MACAddress)
        /\ \A m \in DOMAIN Devices \ {n} :
               MACBytes(Devices[m].MACAddress) # MACBytes(Devices[n].MACAddress)

\* a device was stored from an address written in lower case with mixed
\* separators, next to another device
C1_Witness ==
    /\ last.op = "AddDevice"
    /\ last.err = NoError
    /\ last.mac = MAC_aaMixed
    /\ Name_nas \in DOMAIN Devices
    /\ Devices[Name_nas].MACAddress = MAC_aaColon
    /\ Cardinality(DOMAIN Devices) = 2

\* trimming would remove nothing: neither the first nor the last rune is
\* white space
NoOuterSpace(s) ==
    \/ s = << >>
    \/ /\ ~ IsSpace(Runes(s)[1].cp)
       /\ ~ IsSpace(Runes(s)[Len(Runes(s))].cp)

\* C2: every registered device has a name that is non-empty, equals its own
\* trimmed form, is the key it is stored under, and is the name of no other
\* device.
C2_NamesTrimmedUnique ==
    \A n \in DOMAIN Devices :
        /\ Devices[n].Name # << >>
        /\ NoOuterSpace(Devices[n].Name)
        /\ Devices[n].Name = n
        /\ \A m \in DOMAIN Devices \ {n} : Devices[m].Name # Devices[n].Name

\* a device added under a name padded with spaces is stored trimmed, next
\* to another device
C2_Witness ==
    /\ last.op = "AddDevice"
    /\ last.err = NoError
    /\ last.name = Name_pcPadded
    /\ Name_pc \in DOMAIN Devices
    /\ Cardinality(DOMAIN Devices) = 2

\* C3: every registered device has port > 0 and a non-zero addedAt,
\* whatever port (zero, positive or negative) AddDevice was called with.
C3_PortPositive ==
    \A n \in DOMAIN Devices :
        /\ Devices[n].Port > 0
        /\ ~ IsZero(Devices[n].AddedAt)

\* C4 as stated: AddDevice with a registered name fails with DuplicateName,
\* and AddDevice with a new name whose MAC has the six bytes of a registered
\* device's MAC fails with DuplicateMAC naming that device.
C4_AsStated ==
    [][last'.op = "AddDevice" =>
        LET name    == TrimSpace(last'.name)
            holders == {n \in DOMAIN Devices :
                            SameMAC(Devices[n].MACAddress, last'.mac)}
        IN  /\ name \in DOMAIN Devices => last'.err.kind = "DuplicateName"
            /\ name \notin DOMAIN Devices /\ holders # {} =>
                   /\ last'.err.kind = "DuplicateMAC"
                   /\ last'.err.device \in holders]_vars

\* C4, amended: AddDevice with a registered name and a MAC that passes
\* validation fails with DuplicateName; AddDevice with an unregistered,
\* non-empty, non-reserved name whose MAC has the six bytes of a registered
\* device's MAC, in any style, fails with DuplicateMAC naming that device.
C4_DuplicatesRejected ==
    [][last'.op = "AddDevice" =>
        LET name    == TrimSpace(last'.name)
            holders == {n \in DOMAIN Devices :
                            SameMAC(Devices[n].MACAddress, last'.mac)}
        IN  /\ name \in DOMAIN Devices /\ ValidateMAC(last'.mac) = "" =>
                   last'.err = Error("DuplicateName", name)
            /\ (/\ name \notin DOMAIN Devices
                /\ name # << >>
                /\ ToLower(name) \notin reservedNames
                /\ holders # {}) =>
                   /\ last'.err.kind = "DuplicateMAC"
                   /\ last'.err.device \in holders
                   /\ Devices' = Devices]_vars

\* a new name with the MAC of "pc" written in another style was refused
\* with DuplicateMAC naming "pc"
C4_Witness ==
    /\ last.op = "AddDevice"
    /\ last.name = Name_nas
    /\ last.mac = MAC_aaMixed
    /\ last.err = Error("DuplicateMAC", Name_pc)
    /\ Devices[Name_pc].MACAddress = MAC_aaColon

\* C5: an AddDevice that fails with a validation error leaves the map and
\* the file exactly as they were.
C5_ValidationLeavesUntouched ==
    [][last'.op = "AddDevice" /\ last'.err.kind \in ValidationErrors =>
        /\ Devices' = Devices
        /\ file' = file]_vars

\* a duplicate MAC was refused on a registry that holds a device and has a
\* file
C5_Witness ==
    /\ last.op = "AddDevice"
    /\ last.err.kind = "DuplicateMAC"
    /\ Devices # EmptyMap
    /\ file.kind = "json"

\* C6: when the Save inside AddDevice, RemoveDevice or UpdateLastWoken
\* fails, the call returns an error and the change stays in the map: the
\* device is there, is gone, or has its lastWoken set.
C6_SaveFailureKeepsChange ==
    last.save \in {"mkdir", "write"} =>
        /\ last.err.kind = "PersistenceError"
        /\ last.op = "AddDevice" =>
               /\ TrimSpace(last.name) \in DOMAIN Devices
               /\ Devices[TrimSpace(last.name)].MACAddress
                      = FormatMAC(CleanMAC(last.mac))
        /\ last.op = "RemoveDevice" => last.name \notin DOMAIN Devices
        /\ last.op = "UpdateLastWoken" =>
               /\ last.name \in DOMAIN Devices
               /\ Devices[last.name].LastWoken = Now(clock)

\* an AddDevice whose Save failed while writing: the file is lost, the
\* device is in the map
C6_Witness ==
    /\ last.op = "AddDevice"
    /\ last.save = "write"
    /\ file = FileGarbage
    /\ TrimSpace(last.name) \in DOMAIN Devices

\* C7: whenever a mutating call returns success, the file is the
\* serialisation of the whole map as it is then, changes of earlier calls
\* whose Save failed included.
C7_SuccessMeansPersisted ==
    last.op \in Mutators /\ last.err = NoError =>
        file = FileJSON(MarshalIndent(Devices))

\* a call succeeded on a registry that held an unpersisted change of an
\* earlier call
C7_Witness ==
    /\ last.op \in Mutators
    /\ last.err = NoError
    /\ last.stale
    /\ Cardinality(DOMAIN Devices) = 2

\* equal in every field, times compared as instants
DeviceEqual(a, b) ==
    /\ a.Name = b.Name
    /\ a.MACAddress = b.MACAddress
    /\ a.Description = b.Description
    /\ a.IPAddress = b.IPAddress
    /\ a.Port = b.Port
    /\ TimeEqual(a.AddedAt, b.AddedAt)
    /\ TimeEqual(a.LastWoken, b.LastWoken)

\* C8: after successful AddDevice and UpdateLastWoken calls, a registry
\* constructed afresh from the same path has the same number of devices and
\* returns, for every name, a device equal in every field.
C8_RoundTrip ==
    [][last'.op = "NewDeviceStore" /\ store = "ready" =>
        /\ last'.err = NoError
        /\ Cardinality(DOMAIN Devices') = Cardinality(DOMAIN Devices)
        /\ \A n \in DOMAIN Devices :
               /\ n \in DOMAIN Devices'
               /\ DeviceEqual(Devices'[n], Devices[n])]_vars

\* C9: construction gives an empty registry when there is no file, and
\* fails, returning no registry, when the file is there but cannot be read
\* or parsed.
C9_Construction ==
    last.op = "NewDeviceStore" =>
        /\ file.kind = "absent" =>
               store = "ready" /\ Devices = EmptyMap /\ last.err = NoError
        /\ file.kind \in {"directory", "garbage"} =>
               store = "none" /\ last.err.kind = "LoadError"

\* construction was tried on a file that does not parse
C9_Witness ==
    /\ last.op = "NewDeviceStore"
    /\ file = FileGarbage
    /\ store = "none"

\* C10: ListDevices returns the registered devices, as many as
\* GetDeviceCount reports, each once, in strictly ascending order of name,
\* and changes nothing.
C10_ListSorted ==
    [][last'.op = "ListDevices" =>
        LET out == last'.devices
        IN  /\ Len(out) = Cardinality(DOMAIN Devices)
            /\ {out[i] : i \in 1..Len(out)} = {Devices[n] : n \in DOMAIN Devices}
            /\ \A i \in 1..(Len(out) - 1) :
                   StringLess(out[i].Name, out[i + 1].Name)
            /\ Devices' = Devices
            /\ file' = file]_vars

\* two devices listed, the one listed first added last
C10_Witness ==
    /\ last.op = "ListDevices"
    /\ Len(last.devices) = 2
    /\ last.devices[1].AddedAt.wall > last.devices[2].AddedAt.wall

\* C11: RemoveDevice, GetDevice and UpdateLastWoken called with a name that
\* is not a key of the map (compared byte for byte, so "PC" is not "pc") each
\* fail with NotFound and leave the map, and with it the device count and
\* every device record, and the file as they were.
C11_AbsentNameNotFound ==
    [][(/\ last'.op \in {"RemoveDevice", "GetDevice", "UpdateLastWoken"}
        /\ last'.name \notin DOMAIN Devices) =>
           /\ last'.err = Error("NotFound", last'.name)
           /\ last'.devices = << >>
           /\ Devices' = Devices
           /\ Cardinality(DOMAIN Devices') = Cardinality(DOMAIN Devices)
           /\ file' = file]_vars

\* "PC" was asked to be removed from a registry that holds "pc" and has a
\* file
C11_Witness ==
    /\ last.op = "RemoveDevice"
    /\ last.name = Name_PC
    /\ last.err = Error("NotFound", Name_PC)
    /\ Name_pc \in DOMAIN Devices
    /\ file.kind = "json"

\* s with the ASCII letters A-Z replaced by a-z
FoldASCII(s) == [i \in 1..Len(s) |-> IF s[i] \in 65..90 THEN s[i] + 32 ELSE s[i]]

\* C12: an AddDevice whose name, trimmed and with letter case ignored, is
\* one of the reserved command words fails with ReservedName and changes
\* nothing, whatever the MAC; no registered device ever has such a name.
C12_ReservedNamesRejected ==
    [][/\ (/\ last'.op = "AddDevice"
           /\ FoldASCII(TrimSpace(last'.name)) \in reservedNames) =>
              /\ last'.err.kind = "ReservedName"
              /\ Devices' = Devices
              /\ file' = file
       /\ \A n \in DOMAIN Devices' : FoldASCII(n) \notin reservedNames]_vars

\* "Wake" was refused on a registry that holds a device, although its MAC
\* is valid
C12_Witness ==
    /\ last.op = "AddDevice"
    /\ last.name = Name_Wake
    /\ ValidateMAC(last.mac) = ""
    /\ last.err.kind = "ReservedName"
    /\ Devices # EmptyMap

\* the string with ':' and '-' removed and a-f written as A-F
Normalized(mac) ==
    LET kept == SelectSeq(mac, LAMBDA b : b \notin {58, 45})
    IN  [i \in 1..Len(kept) |-> IF kept[i] \in 97..102 THEN kept[i] - 32 ELSE kept[i]]

\* twelve characters, each one of 0-9 A-F
TwelveHex(s) ==
    /\ Len(s) = 12
    /\ \A i \in 1..Len(s) : s[i] \in (48..57) \cup (65..70)

\* the byte two hexadecimal digits denote
HexPair(hi, lo) ==
    16 * (IF hi <= 57 THEN hi - 48 ELSE hi - 55) + (IF lo <= 57 THEN lo - 48 ELSE lo - 55)

\* C13: BuildMagicPacket succeeds exactly when the input, with ':' and '-'
\* removed and upper-cased, is 12 characters of 0-9A-F; the packet is then
\* 102 bytes, the first six 0xFF, followed by 16 copies of the six bytes the
\* address denotes; otherwise it returns InvalidMAC and no packet.
C13_MagicPacket ==
    [][last'.op = "BuildMagicPacket" =>
        LET norm == Normalized(last'.mac)
            pkt  == last'.packet
        IN  IF TwelveHex(norm)
            THEN /\ last'.err = NoError
                 /\ Len(pkt) = 102
                 /\ \A k \in 0..5 : pkt[k + 1] = 255
                 /\ \A i \in 0..15 : \A j \in 0..5 :
                        pkt[6 + 6 * i + j + 1]
                            = HexPair(norm[2 * j + 1], norm[2 * j + 2])
            ELSE /\ last'.err.kind = "InvalidMAC"
                 /\ pkt = << >>]_vars

\* a packet was built from an address in lower case whose separators are
\* mixed and partly missing
C13_Witness ==
    /\ last.op = "BuildMagicPacket"
    /\ last.mac = FirstFour(<< >>) \o <<52, 53>> \o <<Dash>> \o <<101, 54, 58>>
    /\ last.err = NoError
    /\ SubSeq(last.packet, 97, 102) = <<0, 27, 99, 132, 69, 230>>

\* C14: SendWakePacket with a packet that is not exactly 102 bytes long
\* returns InvalidPacketLength and makes no network call at all: no address
\* resolved, no socket opened, no datagram written.
C14_BadLengthNoIO ==
    [][(last'.op = "SendWakePacket" /\ Len(last'.packet) # 102) =>
           /\ last'.err.kind = "InvalidPacketLength"
           /\ last'.events = << >>
           /\ last'.written = << >>
           /\ net' = net]_vars

\* a packet of 101 bytes was refused after an earlier call had sent one
C14_Witness ==
    /\ last.op = "SendWakePacket"
    /\ Len(last.packet) = 101
    /\ last.err.kind = "InvalidPacketLength"
    /\ net.wire # << >>

\* C15: in every SendWakePacket call that opened a socket, the socket is
\* closed, as the last thing the call does, whether the call fails setting
\* the deadline, fails writing, writes short or succeeds; no socket is open
\* once the call has returned.
C15_SocketClosed ==
    [][last'.op = "SendWakePacket" =>
        LET ev == last'.events
        IN  /\ Count(ev, "dial") <= 1
            /\ Count(ev, "dial") = 1 =>
                   /\ Count(ev, "close") = 1
                   /\ ev[Len(ev)] = "close"
            /\ Count(ev, "dial") = 0 => Count(ev, "close") = 0
            /\ net'.open = 0]_vars

\* a call that opened a socket failed in the write
C15_Witness ==
    /\ last.op = "SendWakePacket"
    /\ last.err.kind = "WriteError"
    /\ Count(last.events, "dial") = 1
    /\ net.open = 0


\* pkt is the magic packet of the address mac: six bytes 0xFF, then 16 times
\* the six bytes mac denotes
IsMagicPacketOf(pkt, mac) ==
    LET norm == Normalized(mac)
    IN  /\ TwelveHex(norm)
        /\ Len(pkt) = 102
        /\ \A k \in 0..5 : pkt[k + 1] = 255
        /\ \A i \in 0..15 : \A j \in 0..5 :
               pkt[6 + 6 * i + j + 1] = HexPair(norm[2 * j + 1], norm[2 * j + 2])

\* C16: when the target of the command line's wake is the name of a
\* registered device, the packet is built for that device's MAC address,
\* also when the target is itself a valid MAC address, and the port used is
\* the requested port when that is not the default 9, otherwise the port
\* stored with the device.
C16_NamedDeviceWake ==
    [][(last'.op = "handleWake" /\ last'.target \in DOMAIN Devices) =>
        LET device == Devices[last'.target]
        IN  /\ last'.macAddress = device.MACAddress
            /\ IsMagicPacketOf(last'.packet, device.MACAddress)
            /\ last'.portUsed = IF last'.port # 9 THEN last'.port
                                ELSE device.Port]_vars

\* the device named "112233445566" was woken without a port flag: the packet
\* went to port 7 and carries the device's address 00-1b-63-84-45-e6
C16_Witness ==
    /\ last.op = "handleWake"
    /\ last.target = MAC_11Bare
    /\ last.port = 9
    /\ last.status = "ok"
    /\ last.portUsed = 7
    /\ last.written # << >>
    /\ last.written[1].port = 7
    /\ SubSeq(last.written[1].data, 97, 102) = <<0, 27, 99, 132, 69, 230>>

\* C17: during a wake, of the command line or of POST /api/wake/{name}, the
\* registry and the file change only if the target is the name of a
\* registered device and the packet was sent, and then only that device's
\* LastWoken changes in the registry; when the send fails, or the target is
\* a MAC address, even that of a registered device, neither a device record
\* nor the file changes.
C17_LastWokenOnlyAfterSend ==
    [][last'.op \in {"handleWake", "handleWakeByName"} =>
        /\ (last'.sendErr # NoError \/ last'.target \notin DOMAIN Devices)
               => (Devices' = Devices /\ file' = file /\ ~ last'.called)
        /\ last'.called
               => /\ last'.sendErr = NoError
                  /\ last'.written # << >>
                  /\ last'.target \in DOMAIN Devices
        /\ DOMAIN Devices' = DOMAIN Devices
        /\ \A n \in DOMAIN Devices :
               /\ n # last'.target => Devices'[n] = Devices[n]
               /\ Devices'[n]
                      = [Devices[n] EXCEPT !.LastWoken = Devices'[n].LastWoken]]_vars

\* "pc" is registered and never woken; a wake by its MAC address, written in
\* another style, was sent and left its record as it was
C17_Witness ==
    /\ last.op = "handleWake"
    /\ last.target = MAC_aaMixed
    /\ last.status = "ok"
    /\ last.written # << >>
    /\ ~ last.called
    /\ Name_pc \in DOMAIN Devices
    /\ CleanMAC(Devices[Name_pc].MACAddress) = CleanMAC(last.target)
    /\ Devices[Name_pc].LastWoken = ZeroTime

\* C18: a wake, of the command line or of POST /api/wake/{name}, ends in
\* success exactly when the packet was sent without error; an error of
\* UpdateLastWoken after the send, a failed save included, leaves it a
\* success.
C18_SuccessIsTransmission ==
    [][last'.op \in {"handleWake", "handleWakeByName"} =>
        /\ last'.status \in {"ok", "failed"}
        /\ last'.status = "ok"
               <=> (last'.sendErr = NoError /\ last'.written # << >>)
        /\ last'.status = "ok" <=> last'.err = NoError
        /\ (last'.called /\ last'.updateErr # NoError)
               => last'.status = "ok"]_vars

\* POST /api/wake/nas?port=7 sent the packet and answered with success,
\* although UpdateLastWoken failed to save
C18_Witness ==
    /\ last.op = "handleWakeByName"
    /\ last.target = Name_nas
    /\ last.sendErr = NoError
    /\ last.written # << >>
    /\ last.called
    /\ last.updateErr # NoError
    /\ last.status = "ok"

\* C19: when the target of the command line's wake is neither the name of a
\* registered device nor a string that is a MAC address, the wake fails with
\* UnknownTarget, no packet is built, no network call is made, and the
\* registry and the file stay as they are.
C19_UnknownTarget ==
    [][(/\ last'.op = "handleWake"
        /\ last'.target \notin DOMAIN Devices
        /\ ~ TwelveHex(Normalized(last'.target))) =>
           /\ last'.status = "failed"
           /\ last'.err.kind = "UnknownTarget"
           /\ last'.packet = << >>
           /\ last'.events = << >>
           /\ last'.written = << >>
           /\ ~ last'.called
           /\ net' = net
           /\ Devices' = Devices
           /\ file' = file]_vars

\* with "pc" registered, "wake PC" failed: the name is matched exactly and
\* "PC" is no MAC address
C19_Witness ==
    /\ last.op = "handleWake"
    /\ last.target = Name_PC
    /\ Name_pc \in DOMAIN Devices
    /\ last.status = "failed"
    /\ last.err.kind = "UnknownTarget"
    /\ last.packet = << >>

\* C20: SendWakeOnLANWithVerification returns an error only when the packet
\* could not be built or could not be sent; once the packet is sent, the
\* call returns no error and a result with PacketSent true, whether the
\* capture reported true or false or the select timed out, and whatever the
\* ping found.
C20_VerificationNeverGates ==
    /\ main.pc \in {"select", "ping"} =>
           /\ main.err = NoError
           /\ main.result.PacketSent
    /\ main.pc = "done" =>
           /\ main.err # NoError =>
                  \/ ~ TwelveHex(Normalized(main.mac))
                  \/ main.sendErr # NoError
           /\ (main.sendErr = NoError /\ main.written # << >>) =>
                  /\ main.err = NoError
                  /\ main.result.Error = NoError
                  /\ main.result.PacketSent
           /\ main.err = NoError <=> main.result.PacketSent

\* a call with capture and ping enabled has returned without error: the
\* select timed out while the goroutine was still reading, and the ping
\* found nothing
C20_Witness ==
    /\ main.pc = "done"
    /\ main.config.EnableCapture
    /\ main.config.EnablePing
    /\ main.info = "broadcast"
    /\ main.err = NoError
    /\ main.result.PacketSent
    /\ main.result.CaptureDetails = "Capture timeout"
    /\ ~ main.result.PacketCaptured
    /\ ~ main.result.TargetReachable
    /\ capture.pc = "read"

\* t is s without the white space at its two ends
IsTrimOf(t, s) ==
    LET rs == Runes(s)
        rt == Runes(t)
    IN  /\ NoOuterSpace(t)
        /\ \E i \in 0..Len(rs) :
             /\ i + Len(rt) <= Len(rs)
             /\ SubSeq(rs, i + 1, i + Len(rt)) = rt
             /\ \A k \in 1..i : IsSpace(rs[k].cp)
             /\ \A k \in (i + Len(rt) + 1)..Len(rs) : IsSpace(rs[k].cp)

\* C21: an AddDevice that returns success adds exactly one device and
\* changes no other; the new device is stored under the trimmed name, with
\* the MAC address in colon-separated upper case, the trimmed description
\* and IP address, port 9 when the port given is 0 and the port given
\* otherwise, addedAt set and lastWoken zero; the count grows by one.
C21_AddAddsOneDevice ==
    [][\A req \in AddRequests :
          (/\ last'.op = "AddDevice"
           /\ last'.name = req.name
           /\ last'.mac = req.mac
           /\ last'.err = NoError) =>
              /\ Cardinality(DOMAIN Devices') = Cardinality(DOMAIN Devices) + 1
              /\ \A n \in DOMAIN Devices :
                     n \in DOMAIN Devices' /\ Devices'[n] = Devices[n]
              /\ \A n \in DOMAIN Devices' \ DOMAIN Devices :
                     LET d == Devices'[n]
                     IN  /\ IsTrimOf(n, req.name)
                         /\ d.Name = n
                         /\ IsCanonicalMAC(d.MACAddress)
                         /\ MACBytes(d.MACAddress) = MACBytes(req.mac)
                         /\ IsTrimOf(d.Description, req.description)
                         /\ IsTrimOf(d.IPAddress, req.ipAddress)
                         /\ d.Port = IF req.port = 0 THEN 9 ELSE req.port
                         /\ ~ IsZero(d.AddedAt)
                         /\ d.LastWoken = ZeroTime]_vars

\* " pc " was added with port 0 next to another device: it is stored as
\* "pc" on port 9, never woken
C21_Witness ==
    /\ last.op = "AddDevice"
    /\ last.name = Name_pcPadded
    /\ last.err = NoError
    /\ Cardinality(DOMAIN Devices) = 2
    /\ Name_pc \in DOMAIN Devices
    /\ Devices[Name_pc].Port = 9
    /\ Devices[Name_pc].MACAddress = MAC_11Colon
    /\ Devices[Name_pc].LastWoken = ZeroTime

\* C23: in the file a device's description, ip_address, port and last_woken
\* members are each absent when the value is empty or zero; a device that
\* was never woken is written without last_woken.
C23_EmptyMembersOmitted ==
    file.kind = "json" =>
        \A i \in 1..Len(file.doc.devices) :
            LET obj == file.doc.devices[i].value
            IN  /\ HasMember(obj, "description")
                       => Member(obj, "description") # EncodeString(<< >>)
                /\ HasMember(obj, "ip_address")
                       => Member(obj, "ip_address") # EncodeString(<< >>)
                /\ HasMember(obj, "port") => Member(obj, "port") # 0
                /\ HasMember(obj, "last_woken")
                       => Member(obj, "last_woken") # TimeMarshalJSON(ZeroTime)

\* C24: UpdateLastWoken on a registered name changes nothing but that
\* device's lastWoken: its name, MAC address, description, IP address, port
\* and addedAt, and every other device, stay as they are; and no registry
\* operation changes the addedAt of a device that stays registered.
C24_OnlyLastWokenChanges ==
    [][/\ (last'.op = "UpdateLastWoken" /\ last'.name \in DOMAIN Devices) =>
            /\ DOMAIN Devices' = DOMAIN Devices
            /\ \A n \in DOMAIN Devices \ {last'.name} :
                   Devices'[n] = Devices[n]
            /\ \A f \in {"Name", "MACAddress", "Description", "IPAddress",
                         "Port", "AddedAt"} :
                   Devices'[last'.name][f] = Devices[last'.name][f]
            /\ ~ IsZero(Devices'[last'.name].LastWoken)
       /\ \A n \in DOMAIN Devices \cap DOMAIN Devices' :
              Devices'[n].AddedAt = Devices[n].AddedAt]_vars

\* with "nas" loaded from the file and "pc" added, "pc" was woken: its
\* lastWoken is later than its addedAt, and "nas" was never woken
C24_Witness ==
    /\ last.op = "UpdateLastWoken"
    /\ last.err = NoError
    /\ Cardinality(DOMAIN Devices) = 2
    /\ last.name = Name_pc
    /\ last.name \in DOMAIN Devices
    /\ Devices[last.name].LastWoken.wall > Devices[last.name].AddedAt.wall
    /\ \E n \in DOMAIN Devices \ {last.name} : IsZero(Devices[n].LastWoken)

\* the first check of AddDevice that refuses the trimmed name and the MAC
\* address on the map ds, "" when none does
FirstRefusal(ds, name, mac) ==
    IF name = << >> THEN "EmptyName"
    ELSE IF FoldASCII(name) \in reservedNames THEN "ReservedName"
    ELSE IF ~ TwelveHex(Normalized(mac)) THEN "InvalidMAC"
    ELSE IF name \in DOMAIN ds THEN "DuplicateName"
    ELSE IF \E n \in DOMAIN ds : SameMAC(ds[n].MACAddress, mac)
        THEN "DuplicateMAC"
    ELSE ""

\* C25: AddDevice checks, in this order, empty name, reserved name, invalid
\* MAC, duplicate name, duplicate MAC, and reports the first that applies: a
\* registered name with an invalid MAC yields InvalidMAC, a registered name
\* with a MAC already in use yields DuplicateName.
C25_CheckOrder ==
    [][last'.op = "AddDevice" =>
          LET first == FirstRefusal(Devices, TrimSpace(last'.name), last'.mac)
          IN  IF first # ""
              THEN last'.err.kind = first
              ELSE last'.err.kind \notin ValidationErrors]_vars

\* with "pc" and "nas" registered, adding "nas" with the MAC of "pc" in
\* another style was refused as a duplicate name
C25_Witness ==
    /\ last.op = "AddDevice"
    /\ last.name = Name_nas
    /\ last.mac = MAC_aaMixed
    /\ last.err = Error("DuplicateName", Name_nas)
    /\ Name_pc \in DOMAIN Devices
    /\ SameMAC(Devices[Name_pc].MACAddress, last.mac)

\* C28: when an update of a registered device over HTTP ends with an error
\* response, because the save inside RemoveDevice failed or because the
\* re-add failed, a device with that name and its original MAC address is
\* still registered in memory.
C28_FailedUpdateKeepsDevice ==
    [][(/\ last'.op = "handleUpdateDevice"
        /\ last'.name \in DOMAIN Devices
        /\ last'.status # 200) =>
           /\ last'.name \in DOMAIN Devices'
           /\ Devices'[last'.name].MACAddress
                  = Devices[last'.name].MACAddress]_vars

\* C29: every name AddDevice accepts can be woken with the short form
\* "wol-server <name>": no registered name is a first argument that main
\* sends to another command than the wake of that name.
C29_NamesAreNotCommands ==
    [][last'.op \in {"handleAddDevice", "handleListDevices",
                     "handleRemoveDevice", "handleShowDevice", "wake",
                     "handleNetworkInfo", "handleTestBroadcast"} =>
           last'.command \notin DOMAIN Devices]_vars

\* C30: the capture goroutine sends one value on its result channel on every
\* path and its send never waits: it has sent at most once, it has sent
\* once when it has returned, the channel has room whenever it is about to
\* send, and once started it always returns, whatever the caller does.
C30_SendsOnce ==
    capture.pc # "none" =>
        /\ capture.sends <= 1
        /\ (capture.pc = "done" => capture.sends = 1)
        /\ (capture.pc \in {"start", "read", "send"} => capture.sends = 0)
        /\ (capture.pc = "send" =>
               Len(captureResult.buf) < captureResult.cap)

C30_CaptureTerminates ==
    /\ []C30_SendsOnce
    /\ (capture.pc = "start") ~> (capture.pc = "done")

\* the packet send failed and the caller returned without receiving; the
\* goroutine has sent its value and returned
C30_Witness ==
    /\ main.pc = "done"
    /\ main.err = Error("SendFailed", << >>)
    /\ capture.pc = "done"
    /\ capture.sends = 1
    /\ captureResult.buf = <<FALSE>>

\* C22: no caller holds a mutable reference to a Device of the registry: an
\* assignment a caller makes to a Device it got from GetDevice or
\* ListDevices leaves the records of the registry as they are, and what the
\* registry saves afterwards carries the port the device was added with
\* (the default port, in these runs), not the caller's value.
C22_CallerCannotAlter ==
    [][/\ last'.op = "WriteHeld" => Devices' = Devices
       /\ (last'.op = "UpdateLastWoken" /\ last'.err = NoError) =>
              \A name \in DOMAIN Devices' :
                  Load(file').devices[name].Port = DefaultWoLPort
      ]_vars

AllReturned == \A id \in RequestIds : requests[id].pc = "done"

\* C26: of two AddDevice calls for different names with the same six-byte
\* MAC that run at the same time, at most one succeeds, and once both have
\* returned no two devices of the registry have the same MAC.
C26_OneDevicePerMAC ==
    AllReturned =>
        /\ \A a, b \in RequestIds :
             (/\ a # b
              /\ requests[a].name # requests[b].name
              /\ SameMAC(requests[a].req.mac, requests[b].req.mac)) =>
                 ~ (requests[a].err = NoError /\ requests[b].err = NoError)
        /\ \A m, n \in DOMAIN Devices :
             m # n => ~ SameMAC(Devices[m].MACAddress, Devices[n].MACAddress)

\* C27: when two AddDevice calls that run at the same time have both
\* returned success, the file is the in-memory registry, marshalled: it
\* holds the device of both.
C27_FileHoldsBoth ==
    (/\ AllReturned
     /\ \A id \in RequestIds : requests[id].err = NoError) =>
        /\ file = FileJSON(MarshalIndent(Devices))
        /\ \A id \in RequestIds :
             requests[id].name \in DOMAIN Load(file).devices
=============================================================================
